---- MODULE Spec2Model ----
(***************************************************************************)
(* A model of the Tier0Feeder control loop (Tier0FeederPoller.py) and of   *)
(* the lumi-aware file availability query                                  *)
(* (GetAvailableRepackMergeFiles.py).                                      *)
(*                                                                         *)
(* The poller touches disjoint groups of tables in its phases, so each     *)
(* group is explored by a specification of its own over the same           *)
(* variables:                                                              *)
(*   SpecQuery    GetAvailableRepackMergeFiles.execute over the WMBS tables *)
(*   SpecSync     the five Tier0 Data Service sync sub-phases               *)
(*   SpecNotify   notifyStorageManager                                      *)
(*   SpecMonitor  feedCouchMonitoring and closeOutRealTimeWorkflows         *)
(*   SpecFeed     the transactional feed of streamer files                  *)
(*   Spec         the cycle: configuration loading, the run and run/stream  *)
(*                loops, and the calls of all later phases in order         *)
(***************************************************************************)
EXTENDS Integers, Sequences, FiniteSets, TLC

VARIABLES
    \* ---- tables read by GetAvailableRepackMergeFiles ----
    wmbs_sub_files_available,   \* rows [subscription, fileid]
    wmbs_file_runlumi_map,      \* rows [fileid, run, lumi]
    wmbs_file_location,         \* rows [fileid, location]
    lumi_section_split_active,  \* rows [run_id, lumi_id, stream_id]
    queryPc,                    \* "idle" | "returned"
    querySub,                   \* the :subscription bind of the last call
    queryResult,                \* the rows the last call returned
    \* ---- Tier0FeederPoller: construction ----
    configuredDir,              \* config.Tier0Feeder.transferSystemBaseDir, None when not set
    dirExists,                  \* a directory is configured and existed at construction
    transferSystemBaseDir,      \* None or the directory
    haveT0DataSvc,              \* BOOLEAN
    getExpressReadyRunsDAO,     \* None or "GetExpressReadyRuns"
    \* ---- primary store (t0ast) and Tier0 Data Service, sync sub-phases ----
    t0ast,                      \* per category, the keys the source query can see
    in_datasvc,                 \* per category and key, the synced flag
    released,                   \* per run, the aggregated released counter
    datasvc,                    \* per category, the records held downstream
    syncPc,                     \* <<step, category>> of the sync pass
    bindsInsert,                \* local of the running sub-phase
    bindsUpdate,                \* local of the running sub-phase
    passInserts,                \* insert calls made by the current pass
    passUpdates,                \* update calls made by the current pass
    insertedOK,                 \* per category, keys whose insert call returned
    passClean,                  \* no primary-store change since the pass began
    lastPassComplete,           \* a pass ran to its end, the store unchanged since it began
    repeatPass,                 \* the current pass started in such a state
    \* ---- streamer table and notifyStorageManager ----
    streamerCount,              \* streamers 1 .. streamerCount are finished
    arrivals,                   \* how many times streamers finished
    deleted,                    \* ids marked finished (deleted = 1)
    notifyPc,                   \* "idle" | "invoke" | "mark"
    allFinishedStreamers,       \* local: the (id, lfn) rows fetched
    chunkQueue,                 \* local: the chunks the loop has still to visit
    streamers,                  \* local: the ids of the current chunk
    invocations,                \* notifier invocations of the current phase
    markedInPhase,              \* ids given to MarkStreamersFinished in the phase
    deletedAtFetch,             \* deleted, as the phase found it
    notifyComplete,             \* the phase ran to its end
    \* ---- workflows, the monitoring store, feedCouchMonitoring, closeout ----
    wfExists,                   \* per workflow: it has been created
    wfTracked,                  \* per workflow: marked tracked for monitoring
    wfCloseout,                 \* per workflow: marked closed out
    filesetOpen,                \* per workflow: its fileset is open
    couch,                      \* monitoring store: request name -> status
    monPc,                      \* position inside the two monitoring methods
    monQueue,                   \* local: workflows the loop has still to visit
    monCurrent,                 \* local: the workflow being handled
    monResponse,                \* local: response of the monitoring store
    insertResponse,             \* per workflow: last response to its insert
    closeoutRows,               \* rows the running closeout pass fetched
    closeoutMarked,             \* workflows the closeout pass marked
    closeoutComplete,           \* the closeout pass ran to its end
    \* ---- streamer files and filesets, the transactional feed ----
    streamerArrived,            \* streamer files that belong into an open fileset
    filesetFiles,               \* files admitted into filesets (committed)
    txWrites,                   \* admissions written inside the open transaction
    feedPc,                     \* "idle" | "begun" | "executed" | "raised"
    feedStartFiles,             \* filesetFiles when the feed phase started
    feedOutcome,                \* "" | "running" | "failed" | "committed"
    failedWouldAdmit,           \* what the failed feed had to admit
    failedWrites,               \* what the failed feed wrote before it raised
    sameStoreSinceFailure,      \* nothing arrived since the failed feed
    feedAdmitted,               \* files admitted by the last commit
    feedRetry,                  \* the last commit retried a failed feed
    \* ---- Tier0FeederPoller.algorithm: one cycle ----
    unconfiguredRuns,           \* run -> hltkey of the runs FindNewRuns sees
    newRunStreams,              \* (run, stream) pairs FindNewRunStreams sees
    cyclePc,                    \* "idle", the call about to be made, "returned"
    cycleOutcome,               \* "" | "running" | "done" | "raised"
    tier0Config,                \* local: None or the loaded configuration
    runQueue,                   \* local: (run, hltkey) items still to visit
    pairQueue,                  \* local: (run, stream) pairs still to visit
    ran,                        \* calls the cycle has made, in order
    runsFound,                  \* runs FindNewRuns returned in this cycle
    pairsFound,                 \* pairs FindNewRunStreams returned in this cycle
    lookupFailed,               \* runs skipped after the trigger lookup
    configureRunCalls,          \* (run, kind of hltConfig) given to configureRun
    configureRunRaised,         \* runs whose configureRun raised
    configureRunStreamCalls,    \* pairs given to configureRunStream
    configureRunStreamRaised,   \* pairs whose configureRunStream raised
    expressCandidates,          \* runs FindNewExpressRuns returned in this cycle
    expressReady,               \* runs the PopConLog database reports ready
    expressReleased,            \* runs given to ReleaseExpress in this cycle
    notifierError,              \* the notifier wrote to its error stream in this cycle
    streamersMarked,            \* the notified streamers were marked in this cycle
    uploadError,                \* the conditions upload failed in this cycle
    injectedFlags               \* the flags given to markWorkflowsInjected in this cycle

queryVars == << wmbs_sub_files_available, wmbs_file_runlumi_map,
                wmbs_file_location, lumi_section_split_active,
                queryPc, querySub, queryResult >>

configVars == << configuredDir, dirExists, transferSystemBaseDir,
                 haveT0DataSvc, getExpressReadyRunsDAO >>

syncVars == << t0ast, in_datasvc, released, datasvc, syncPc, bindsInsert,
               bindsUpdate, passInserts, passUpdates, insertedOK, passClean,
               lastPassComplete, repeatPass >>

notifyVars == << streamerCount, arrivals, deleted, notifyPc,
                 allFinishedStreamers, chunkQueue, streamers, invocations,
                 markedInPhase, deletedAtFetch, notifyComplete >>

monitorVars == << wfExists, wfTracked, wfCloseout, filesetOpen, couch, monPc,
                  monQueue, monCurrent, monResponse, insertResponse,
                  closeoutRows, closeoutMarked, closeoutComplete >>

feedVars == << streamerArrived, filesetFiles, txWrites, feedPc, feedStartFiles,
               feedOutcome, failedWouldAdmit, failedWrites,
               sameStoreSinceFailure, feedAdmitted, feedRetry >>

cycleVars == << unconfiguredRuns, newRunStreams, cyclePc, cycleOutcome,
                tier0Config, runQueue, pairQueue, ran, runsFound, pairsFound,
                lookupFailed, configureRunCalls, configureRunRaised,
                configureRunStreamCalls, configureRunStreamRaised,
                expressCandidates, expressReady, expressReleased,
                notifierError, streamersMarked, uploadError, injectedFlags >>

vars == << queryVars, configVars, syncVars, notifyVars, monitorVars, feedVars,
           cycleVars >>

\* What the actions of each group leave alone.
queryFrame == << configVars, syncVars, notifyVars, monitorVars, feedVars,
                 cycleVars >>
syncFrame == << queryVars, configVars, notifyVars, monitorVars, feedVars,
                cycleVars >>
notifyFrame == << queryVars, configVars, syncVars, monitorVars, feedVars,
                  cycleVars >>
monitorFrame == << queryVars, configVars, syncVars, notifyVars, feedVars,
                   cycleVars >>
feedFrame == << queryVars, configVars, syncVars, notifyVars, monitorVars,
                cycleVars >>
cycleFrame == << queryVars, configVars, syncVars, notifyVars, monitorVars,
                 feedVars >>

None == "None"

Min(S) == CHOOSE x \in S : \A y \in S : x <= y
Max(S) == CHOOSE x \in S : \A y \in S : x >= y

(***************************************************************************)
(*                 GetAvailableRepackMergeFiles (the query)                *)
(***************************************************************************)

\* Bounds of the table contents explored.
MaxLumi == 3
MaxRows == 5

Files     == {1, 2}
Lumis     == 1 .. MaxLumi
Runs      == {1}
Streams   == {1, 2}
Locations == {1, 2}

\* Static tables.  Run 1 has two streams; each stream has a Repack workflow
\* reading the run/stream fileset and writing an output fileset, on which a
\* RepackMerge subscription sits.
wmbs_subscription ==
    { [id |-> 1, fileset |-> 11, workflow |-> 101],
      [id |-> 2, fileset |-> 12, workflow |-> 102],
      [id |-> 3, fileset |-> 21, workflow |-> 201],
      [id |-> 4, fileset |-> 22, workflow |-> 202] }

wmbs_workflow_output ==
    { [workflow_id |-> 101, output_fileset |-> 12],
      [workflow_id |-> 201, output_fileset |-> 22] }

run_stream_fileset_assoc ==
    { [run_id |-> 1, stream_id |-> 1, fileset |-> 11],
      [run_id |-> 1, stream_id |-> 2, fileset |-> 21] }

wmbs_file_details ==
    { [id |-> 1, filesize |-> 1000, events |-> 10, lfn |-> "/store/f1.root"],
      [id |-> 2, filesize |-> 2000, events |-> 20, lfn |-> "/store/f2.root"] }

wmbs_location ==
    { [id |-> 1, se_name |-> "se1.cern.ch"],
      [id |-> 2, se_name |-> "se2.cern.ch"] }

Subscriptions == { s.id : s \in wmbs_subscription }

\* The RepackMerge subscriptions and the rows their available-files table
\* can hold: file 1 is an output of stream 1, file 2 may sit in both output
\* filesets.
AvailableUniverse ==
    { [subscription |-> 2, fileid |-> 1],
      [subscription |-> 2, fileid |-> 2],
      [subscription |-> 4, fileid |-> 2] }

RunLumiUniverse == [fileid : Files, run : Runs, lumi : Lumis]
LocationUniverse == [fileid : Files, location : Locations]
SplitActiveUniverse == [run_id : Runs, lumi_id : Lumis, stream_id : Streams]

TableRows == Cardinality(wmbs_sub_files_available)
           + Cardinality(wmbs_file_runlumi_map)
           + Cardinality(wmbs_file_location)
           + Cardinality(lumi_section_split_active)

\* ( SELECT fileset FROM wmbs_subscription WHERE workflow = :workflow_id )
SubscriptionFilesets(workflow_id) ==
    { s.fileset : s \in { x \in wmbs_subscription : x.workflow = workflow_id } }

\* The rows of the FROM clause after all INNER JOINs, for one subscription.
InnerJoin(subscription) ==
    { j \in [ a  : wmbs_sub_files_available,
              m  : wmbs_file_runlumi_map,
              d  : wmbs_file_details,
              fl : wmbs_file_location,
              l  : wmbs_location,
              s  : wmbs_subscription,
              wo : wmbs_workflow_output,
              rs : run_stream_fileset_assoc ] :
        /\ j.m.fileid = j.a.fileid
        /\ j.d.id = j.a.fileid
        /\ j.fl.fileid = j.a.fileid
        /\ j.l.id = j.fl.location
        /\ j.s.id = j.a.subscription
        /\ j.wo.output_fileset = j.s.fileset
        /\ j.rs.run_id = j.m.run
        /\ SubscriptionFilesets(j.wo.workflow_id) = {j.rs.fileset}
        /\ j.a.subscription = subscription }

\* The lumi_section_split_active rows the LEFT OUTER JOIN pairs with a row.
SplitActiveMatches(j) ==
    { k \in lumi_section_split_active :
        /\ k.run_id = j.m.run
        /\ k.lumi_id = j.m.lumi
        /\ k.stream_id = j.rs.stream_id }

\* WHERE ... AND lumi_section_split_active.run_id IS NULL: a joined row
\* survives when the outer join found no lock row for it.
WhereRows(subscription) ==
    { j \in InnerJoin(subscription) : SplitActiveMatches(j) = {} }

\* A grouping key without the location: the rows of a file at several
\* locations fall into one group, reported with one of the locations.
GroupKeyWithoutLocation(j) ==
    [ id |-> j.a.fileid, filesize |-> j.d.filesize, events |-> j.d.events,
      lfn |-> j.d.lfn,
      location |->
          (CHOOSE l \in wmbs_location :
              \E fl \in wmbs_file_location :
                  fl.fileid = j.a.fileid /\ fl.location = l.id).se_name ]

GroupKey(j) ==
    [ id |-> j.a.fileid, filesize |-> j.d.filesize, events |-> j.d.events,
      lfn |-> j.d.lfn, location |-> j.l.se_name ]

\* GROUP BY fileid, filesize, events, lfn, se_name with MIN(lumi), MAX(lumi).
GetAvailableRepackMergeFiles(subscription) ==
    LET rows == WhereRows(subscription)
        keys == { GroupKey(j) : j \in rows }
        lumisOf(k) == { j.m.lumi : j \in { x \in rows : GroupKey(x) = k } }
    IN  { [ id |-> k.id, filesize |-> k.filesize, events |-> k.events,
            lfn |-> k.lfn, location |-> k.location,
            first_lumi |-> Min(lumisOf(k)), last_lumi |-> Max(lumisOf(k)) ] :
          k \in keys }

QueryInit ==
    /\ wmbs_sub_files_available = {}
    /\ wmbs_file_runlumi_map = {}
    /\ wmbs_file_location = {}
    /\ lumi_section_split_active = {}
    /\ queryPc = "idle"
    /\ querySub = None
    /\ queryResult = {}

\* A file becomes available to a subscription (fileset feeding, not part of
\* the query).
MakeAvailable(row) ==
    /\ queryPc = "idle"
    /\ row \notin wmbs_sub_files_available
    /\ TableRows < MaxRows
    /\ wmbs_sub_files_available' = wmbs_sub_files_available \cup {row}
    /\ UNCHANGED << wmbs_file_runlumi_map, wmbs_file_location,
                    lumi_section_split_active, queryPc, querySub, queryResult >>
    /\ UNCHANGED queryFrame

AddRunLumi(row) ==
    /\ queryPc = "idle"
    /\ row \notin wmbs_file_runlumi_map
    /\ TableRows < MaxRows
    /\ wmbs_file_runlumi_map' = wmbs_file_runlumi_map \cup {row}
    /\ UNCHANGED << wmbs_sub_files_available, wmbs_file_location,
                    lumi_section_split_active, queryPc, querySub, queryResult >>
    /\ UNCHANGED queryFrame

AddLocation(row) ==
    /\ queryPc = "idle"
    /\ row \notin wmbs_file_location
    /\ TableRows < MaxRows
    /\ wmbs_file_location' = wmbs_file_location \cup {row}
    /\ UNCHANGED << wmbs_sub_files_available, wmbs_file_runlumi_map,
                    lumi_section_split_active, queryPc, querySub, queryResult >>
    /\ UNCHANGED queryFrame

AddSplitActive(row) ==
    /\ queryPc = "idle"
    /\ row \notin lumi_section_split_active
    /\ TableRows < MaxRows
    /\ lumi_section_split_active' = lumi_section_split_active \cup {row}
    /\ UNCHANGED << wmbs_sub_files_available, wmbs_file_runlumi_map,
                    wmbs_file_location, queryPc, querySub, queryResult >>
    /\ UNCHANGED queryFrame

DeleteSplitActive(row) ==
    /\ queryPc = "idle"
    /\ row \in lumi_section_split_active
    /\ lumi_section_split_active' = lumi_section_split_active \ {row}
    /\ UNCHANGED << wmbs_sub_files_available, wmbs_file_runlumi_map,
                    wmbs_file_location, queryPc, querySub, queryResult >>
    /\ UNCHANGED queryFrame

\* execute(subscription): a pure read, the formatted rows are returned.
Execute(subscription) ==
    /\ queryPc = "idle"
    /\ queryPc' = "returned"
    /\ querySub' = subscription
    /\ queryResult' = GetAvailableRepackMergeFiles(subscription)
    /\ UNCHANGED << wmbs_sub_files_available, wmbs_file_runlumi_map,
                    wmbs_file_location, lumi_section_split_active >>
    /\ UNCHANGED queryFrame

\* The caller has consumed the rows.
ExecuteDone ==
    /\ queryPc = "returned"
    /\ queryPc' = "idle"
    /\ querySub' = None
    /\ queryResult' = {}
    /\ UNCHANGED << wmbs_sub_files_available, wmbs_file_runlumi_map,
                    wmbs_file_location, lumi_section_split_active >>
    /\ UNCHANGED queryFrame

QueryNext ==
    \/ \E row \in AvailableUniverse : MakeAvailable(row)
    \/ \E row \in RunLumiUniverse : AddRunLumi(row)
    \/ \E row \in LocationUniverse : AddLocation(row)
    \/ \E row \in SplitActiveUniverse : AddSplitActive(row)
    \/ \E row \in SplitActiveUniverse : DeleteSplitActive(row)
    \/ \E subscription \in Subscriptions : Execute(subscription)
    \/ ExecuteDone

(***************************************************************************)
(*                     Tier0FeederPoller: construction                     *)
(***************************************************************************)

\* Variant: the configured transfer directory is kept whether or not it
\* exists.
PollerInitUnchecked(transferDir, exists, svcUrl, popConLogUrl) ==
    /\ configuredDir = transferDir
    /\ dirExists = (transferDir # None /\ exists)
    /\ transferSystemBaseDir = transferDir
    /\ haveT0DataSvc = svcUrl
    /\ getExpressReadyRunsDAO =
          IF popConLogUrl THEN "GetExpressReadyRuns" ELSE None

\* __init__: the configured transfer directory is kept only if it exists,
\* the Data Service flag is set when a connect url is configured, the
\* PopConLog DAO is created when its connect url is configured.
PollerInit(transferDir, exists, svcUrl, popConLogUrl) ==
    /\ configuredDir = transferDir
    /\ dirExists = (transferDir # None /\ exists)
    /\ transferSystemBaseDir =
          IF transferDir # None /\ ~exists THEN None ELSE transferDir
    /\ haveT0DataSvc = svcUrl
    /\ getExpressReadyRunsDAO =
          IF popConLogUrl THEN "GetExpressReadyRuns" ELSE None

(***************************************************************************)
(*          The five Tier0 Data Service sync sub-phases (sync pass)        *)
(***************************************************************************)

\* Bounds: rows the primary store may hold over all categories, and the
\* largest value of a run's released counter.
MaxSyncRows == 2
MaxReleased == 1

Categories ==
    << "RunStreamDone", "ExpressConfigs", "RecoConfigs",
       "RecoReleaseConfigs", "DatasetLocked" >>

CategorySet == { Categories[i] : i \in 1 .. Len(Categories) }

\* The natural keys of each category, in the order the source query lists
\* its rows.
KeyOrder(c) ==
    CASE c = "RunStreamDone" ->
            << [run |-> 1, stream |-> "A"], [run |-> 1, stream |-> "Express"] >>
      [] c = "ExpressConfigs" ->
            << [run |-> 1, stream |-> "Express"], [run |-> 2, stream |-> "Express"] >>
      [] c = "RecoConfigs" ->
            << [run |-> 1, primds |-> "Cosmics"], [run |-> 1, primds |-> "MinBias"] >>
      [] c = "RecoReleaseConfigs" ->
            << [run |-> 1], [run |-> 2] >>
      [] c = "DatasetLocked" ->
            << [id |-> 1], [id |-> 2] >>

Keys(c) == { KeyOrder(c)[i] : i \in 1 .. Len(KeyOrder(c)) }

ReleaseRuns == { k.run : k \in Keys("RecoReleaseConfigs") }

\* global_tag column values: one fits the downstream column, one does not.
GlobalTagOf(run) ==
    IF run = 1 THEN << "G", "R", "_", "P", "_", "V", "4", "2" >>
               ELSE [i \in 1 .. 60 |-> IF i % 2 = 1 THEN "G" ELSE "T"]

\* config['global_tag'][:50]
Slice(str, n) == SubSeq(str, 1, IF Len(str) < n THEN Len(str) ELSE n)

DatasetPath(id) ==
    IF id = 1 THEN "/Cosmics/Run1-v1/RAW" ELSE "/MinBias/Run1-v1/RAW"

SyncRows == Cardinality(t0ast["RunStreamDone"]) + Cardinality(t0ast["ExpressConfigs"])
          + Cardinality(t0ast["RecoConfigs"]) + Cardinality(t0ast["RecoReleaseConfigs"])
          + Cardinality(t0ast["DatasetLocked"])

\* The rows a source query returns: the keys kept in list order.
RowsOf(c, keep(_)) == SelectSeq(KeyOrder(c), keep)

\* T0DataSvc.GetRunStreamDone: run/streams finished and not yet in the
\* Data Service.
GetRunStreamDone ==
    LET keep(k) == k \in t0ast["RunStreamDone"] /\ in_datasvc["RunStreamDone"][k] = 0
    IN  RowsOf("RunStreamDone", keep)

\* T0DataSvc.GetExpressConfigs: express_config rows not yet in the Data
\* Service, with their columns.
GetExpressConfigs ==
    LET keep(k) == k \in t0ast["ExpressConfigs"] /\ in_datasvc["ExpressConfigs"][k] = 0
        keys == RowsOf("ExpressConfigs", keep)
    IN  [ i \in 1 .. Len(keys) |->
            [ run |-> keys[i].run, stream |-> keys[i].stream,
              cmssw |-> "CMSSW_X", scram_arch |-> "slc", reco_cmssw |-> "CMSSW_Y",
              reco_scram_arch |-> "slc", alca_skim |-> "Skim", dqm_seq |-> "Seq",
              global_tag |-> GlobalTagOf(keys[i].run), scenario |-> "pp" ] ]

\* T0DataSvc.GetRecoConfigs: reco_config rows not yet in the Data Service.
GetRecoConfigs ==
    LET keep(k) == k \in t0ast["RecoConfigs"] /\ in_datasvc["RecoConfigs"][k] = 0
        keys == RowsOf("RecoConfigs", keep)
    IN  [ i \in 1 .. Len(keys) |->
            [ run |-> keys[i].run, primds |-> keys[i].primds,
              cmssw |-> "CMSSW_X", scram_arch |-> "slc", alca_skim |-> "Skim",
              physics_skim |-> "PSkim", dqm_seq |-> "Seq",
              global_tag |-> GlobalTagOf(keys[i].run), scenario |-> "pp" ] ]

\* T0DataSvc.GetRecoReleaseConfigs: per run the aggregated released counter,
\* for runs whose synced counter is below the value a sync would write
\* (never synced, or synced as not locked and released since).
GetRecoReleaseConfigs ==
    LET c == "RecoReleaseConfigs"
        keep(k) == /\ k \in t0ast[c]
                   /\ \/ in_datasvc[c][k] = 0
                      \/ in_datasvc[c][k] = 1 /\ released[k.run] > 0
        keys == RowsOf(c, keep)
    IN  [ i \in 1 .. Len(keys) |->
            [ run |-> keys[i].run, released |-> released[keys[i].run] ] ]

\* T0DataSvc.GetDatasetLocked: datasets not yet published downstream.
GetDatasetLocked ==
    LET keep(k) == k \in t0ast["DatasetLocked"] /\ in_datasvc["DatasetLocked"][k] = 0
        keys == RowsOf("DatasetLocked", keep)
    IN  [ i \in 1 .. Len(keys) |-> [ id |-> keys[i].id, path |-> DatasetPath(keys[i].id) ] ]

\* ---- the bind lists each method builds from the rows ----

RunStreamDoneBinds(runStreamDone) ==
    [ i \in 1 .. Len(runStreamDone) |->
        [ RUN |-> runStreamDone[i].run, STREAM |-> runStreamDone[i].stream ] ]

ExpressConfigsBindsInsert(expressConfigs) ==
    [ i \in 1 .. Len(expressConfigs) |->
        LET config == expressConfigs[i]
        IN  [ RUN |-> config.run, STREAM |-> config.stream, CMSSW |-> config.cmssw,
              SCRAM_ARCH |-> config.scram_arch, RECO_CMSSW |-> config.reco_cmssw,
              RECO_SCRAM_ARCH |-> config.reco_scram_arch,
              ALCA_SKIM |-> config.alca_skim, DQM_SEQ |-> config.dqm_seq,
              GLOBAL_TAG |-> Slice(config.global_tag, 50),
              SCENARIO |-> config.scenario ] ]

ExpressConfigsBindsUpdate(expressConfigs) ==
    [ i \in 1 .. Len(expressConfigs) |->
        [ RUN |-> expressConfigs[i].run, STREAM |-> expressConfigs[i].stream ] ]

RecoConfigsBindsInsert(recoConfigs) ==
    [ i \in 1 .. Len(recoConfigs) |->
        LET config == recoConfigs[i]
        IN  [ RUN |-> config.run, PRIMDS |-> config.primds, CMSSW |-> config.cmssw,
              SCRAM_ARCH |-> config.scram_arch, ALCA_SKIM |-> config.alca_skim,
              PHYSICS_SKIM |-> config.physics_skim, DQM_SEQ |-> config.dqm_seq,
              GLOBAL_TAG |-> Slice(config.global_tag, 50),
              SCENARIO |-> config.scenario ] ]

\* Variant: the update binds start at the second row.
RecoConfigsBindsUpdateFromSecond(recoConfigs) ==
    [ i \in 1 .. Len(recoConfigs) - 1 |->
        [ RUN |-> recoConfigs[i + 1].run, PRIMDS |-> recoConfigs[i + 1].primds ] ]

RecoConfigsBindsUpdate(recoConfigs) ==
    [ i \in 1 .. Len(recoConfigs) |->
        [ RUN |-> recoConfigs[i].run, PRIMDS |-> recoConfigs[i].primds ] ]

\* Variant: every run pushed is pushed as locked.
LockedAlways(config) == 1

\* locked = int(config['released'] > 0)
Locked(config) == IF config.released > 0 THEN 1 ELSE 0

RecoReleaseBindsInsert(recoReleaseConfigs) ==
    [ i \in 1 .. Len(recoReleaseConfigs) |->
        [ RUN |-> recoReleaseConfigs[i].run,
          LOCKED |-> Locked(recoReleaseConfigs[i]) ] ]

\* Mutant: the synced value is written without the + 1.
RecoReleaseBindsUpdateNoIncrement(recoReleaseConfigs) ==
    [ i \in 1 .. Len(recoReleaseConfigs) |->
        [ RUN |-> recoReleaseConfigs[i].run,
          IN_DATASVC |-> Locked(recoReleaseConfigs[i]) ] ]

RecoReleaseBindsUpdate(recoReleaseConfigs) ==
    [ i \in 1 .. Len(recoReleaseConfigs) |->
        [ RUN |-> recoReleaseConfigs[i].run,
          IN_DATASVC |-> Locked(recoReleaseConfigs[i]) + 1 ] ]

DatasetLockedBindsInsert(datasetConfigs) ==
    [ i \in 1 .. Len(datasetConfigs) |-> [ PATH |-> datasetConfigs[i].path ] ]

DatasetLockedBindsUpdate(datasetConfigs) ==
    [ i \in 1 .. Len(datasetConfigs) |-> [ ID |-> datasetConfigs[i].id ] ]

\* The rows of the category's source query, and the two bind lists the
\* category's method builds from them.
GetRows(c) ==
    CASE c = "RunStreamDone" -> GetRunStreamDone
      [] c = "ExpressConfigs" -> GetExpressConfigs
      [] c = "RecoConfigs" -> GetRecoConfigs
      [] c = "RecoReleaseConfigs" -> GetRecoReleaseConfigs
      [] c = "DatasetLocked" -> GetDatasetLocked

BuildBindsInsert(c, rows) ==
    CASE c = "RunStreamDone" -> RunStreamDoneBinds(rows)
      [] c = "ExpressConfigs" -> ExpressConfigsBindsInsert(rows)
      [] c = "RecoConfigs" -> RecoConfigsBindsInsert(rows)
      [] c = "RecoReleaseConfigs" -> RecoReleaseBindsInsert(rows)
      [] c = "DatasetLocked" -> DatasetLockedBindsInsert(rows)

BuildBindsUpdate(c, rows) ==
    CASE c = "RunStreamDone" -> RunStreamDoneBinds(rows)
      [] c = "ExpressConfigs" -> ExpressConfigsBindsUpdate(rows)
      [] c = "RecoConfigs" -> RecoConfigsBindsUpdate(rows)
      [] c = "RecoReleaseConfigs" -> RecoReleaseBindsUpdate(rows)
      [] c = "DatasetLocked" -> DatasetLockedBindsUpdate(rows)

\* ---- the downstream and primary DAOs the methods call ----

\* The natural key of a downstream record.
InsertKey(c, bind) ==
    CASE c = "RunStreamDone" -> [run |-> bind.RUN, stream |-> bind.STREAM]
      [] c = "ExpressConfigs" -> [run |-> bind.RUN, stream |-> bind.STREAM]
      [] c = "RecoConfigs" -> [run |-> bind.RUN, primds |-> bind.PRIMDS]
      [] c = "RecoReleaseConfigs" -> [run |-> bind.RUN]
      [] c = "DatasetLocked" -> [path |-> bind.PATH]

\* The primary-store key an update bind addresses.
UpdateKey(c, bind) ==
    CASE c = "RunStreamDone" -> [run |-> bind.RUN, stream |-> bind.STREAM]
      [] c = "ExpressConfigs" -> [run |-> bind.RUN, stream |-> bind.STREAM]
      [] c = "RecoConfigs" -> [run |-> bind.RUN, primds |-> bind.PRIMDS]
      [] c = "RecoReleaseConfigs" -> [run |-> bind.RUN]
      [] c = "DatasetLocked" -> [id |-> bind.ID]

\* The value an update bind writes to the synced flag.
UpdateValue(c, bind) ==
    IF c = "RecoReleaseConfigs" THEN bind.IN_DATASVC ELSE 1

\* The downstream key that mirrors a primary key.
MirrorKey(c, k) ==
    IF c = "DatasetLocked" THEN [path |-> DatasetPath(k.id)] ELSE k

\* Mutant: a plain insert, which stores a record for every bind.
InsertAlways(c, store, binds) ==
    store \cup { binds[i] : i \in 1 .. Len(binds) }

RECURSIVE InsertOrIgnore(_, _, _)
\* T0DataSvc.Insert*: each bind is inserted unless a record with its natural
\* key is already there.
InsertOrIgnore(c, store, binds) ==
    IF binds = << >> THEN store
    ELSE LET b == Head(binds)
             hit == \E r \in store : InsertKey(c, r) = InsertKey(c, b)
         IN  InsertOrIgnore(c, IF hit THEN store ELSE store \cup {b}, Tail(binds))

\* T0DataSvc.Update*: the rows addressed by the binds get the synced value.
UpdateFlags(c, flags, binds) ==
    [ k \in DOMAIN flags |->
        IF \E i \in 1 .. Len(binds) : UpdateKey(c, binds[i]) = k
        THEN LET i == CHOOSE j \in 1 .. Len(binds) : UpdateKey(c, binds[j]) = k
             IN  UpdateValue(c, binds[i])
        ELSE flags[k] ]

BindKeys(c, binds) == { InsertKey(c, binds[i]) : i \in 1 .. Len(binds) }

SyncInit ==
    /\ t0ast = [ c \in CategorySet |-> {} ]
    /\ in_datasvc = [ c \in CategorySet |-> [ k \in Keys(c) |-> 0 ] ]
    /\ released = [ r \in ReleaseRuns |-> 0 ]
    /\ datasvc = [ c \in CategorySet |-> {} ]
    /\ syncPc = << "idle", "" >>
    /\ bindsInsert = << >>
    /\ bindsUpdate = << >>
    /\ passInserts = 0
    /\ passUpdates = 0
    /\ insertedOK = [ c \in CategorySet |-> {} ]
    /\ passClean = FALSE
    /\ lastPassComplete = FALSE
    /\ repeatPass = FALSE

CategoryIndex(c) == CHOOSE i \in 1 .. Len(Categories) : Categories[i] = c

\* Where control goes when the method of category c returns.
AfterCategory(c) ==
    IF CategoryIndex(c) < Len(Categories)
    THEN << "get", Categories[CategoryIndex(c) + 1] >>
    ELSE << "idle", "" >>

\* The pass is over when the last method returns.
EndOfPass(c) == CategoryIndex(c) = Len(Categories)

\* ---- the primary store changes under the poller ----

\* A row of category c becomes visible to its source query (a workflow
\* finished, a run or dataset was configured).
NewPrimaryRow(c, k) ==
    /\ k \notin t0ast[c]
    /\ SyncRows < MaxSyncRows
    /\ t0ast' = [ t0ast EXCEPT ![c] = @ \cup {k} ]
    /\ passClean' = FALSE
    /\ lastPassComplete' = FALSE
    /\ repeatPass' = FALSE
    /\ UNCHANGED << in_datasvc, released, datasvc, syncPc, bindsInsert,
                    bindsUpdate, passInserts, passUpdates, insertedOK >>
    /\ UNCHANGED syncFrame

\* PromptReco is released for a dataset of the run: the run's released
\* counter grows.
ReleaseRun(run) ==
    /\ [run |-> run] \in t0ast["RecoReleaseConfigs"]
    /\ released[run] < MaxReleased
    /\ released' = [ released EXCEPT ![run] = @ + 1 ]
    /\ passClean' = FALSE
    /\ lastPassComplete' = FALSE
    /\ repeatPass' = FALSE
    /\ UNCHANGED << t0ast, in_datasvc, datasvc, syncPc, bindsInsert,
                    bindsUpdate, passInserts, passUpdates, insertedOK >>
    /\ UNCHANGED syncFrame

\* ---- algorithm, lines 201-206, and the five methods ----

\* Variant: the pass starts whether or not a downstream store is configured.
SyncBeginUngated ==
    /\ syncPc = << "idle", "" >>
    /\ syncPc' = << "get", Categories[1] >>
    /\ passInserts' = 0
    /\ passUpdates' = 0
    /\ repeatPass' = lastPassComplete
    /\ passClean' = TRUE
    /\ lastPassComplete' = FALSE
    /\ UNCHANGED << t0ast, in_datasvc, released, datasvc, bindsInsert,
                    bindsUpdate, insertedOK >>
    /\ UNCHANGED syncFrame

\* if self.haveT0DataSvc: the pass starts with updateRunStreamDoneT0DataSvc.
SyncBegin ==
    /\ syncPc = << "idle", "" >>
    /\ haveT0DataSvc
    /\ syncPc' = << "get", Categories[1] >>
    /\ passInserts' = 0
    /\ passUpdates' = 0
    /\ repeatPass' = lastPassComplete
    /\ passClean' = TRUE
    /\ lastPassComplete' = FALSE
    /\ UNCHANGED << t0ast, in_datasvc, released, datasvc, bindsInsert,
                    bindsUpdate, insertedOK >>
    /\ UNCHANGED syncFrame

\* The method of category c runs its source query and builds its binds; with
\* no rows it returns at once.
SyncGet(c) ==
    /\ syncPc = << "get", c >>
    /\ LET rows == GetRows(c)
       IN  IF Len(rows) > 0
           THEN /\ bindsInsert' = BuildBindsInsert(c, rows)
                /\ bindsUpdate' = BuildBindsUpdate(c, rows)
                /\ syncPc' = << "insert", c >>
                /\ UNCHANGED lastPassComplete
           ELSE /\ UNCHANGED << bindsInsert, bindsUpdate >>
                /\ syncPc' = AfterCategory(c)
                /\ lastPassComplete' = (EndOfPass(c) /\ passClean)
    /\ UNCHANGED << t0ast, in_datasvc, released, datasvc, passInserts,
                    passUpdates, insertedOK, passClean, repeatPass >>
    /\ UNCHANGED syncFrame

\* insert...DAO.execute(binds = bindsInsert) returns.
SyncInsert(c) ==
    /\ syncPc = << "insert", c >>
    /\ datasvc' = [ datasvc EXCEPT ![c] = InsertOrIgnore(c, @, bindsInsert) ]
    /\ insertedOK' = [ insertedOK EXCEPT ![c] = @ \cup BindKeys(c, bindsInsert) ]
    /\ passInserts' = passInserts + 1
    /\ syncPc' = << "update", c >>
    /\ UNCHANGED << t0ast, in_datasvc, released, bindsInsert, bindsUpdate,
                    passUpdates, passClean, lastPassComplete, repeatPass >>
    /\ UNCHANGED syncFrame

\* Mutant: the raising insert is swallowed and the method goes on to mark.
SyncInsertRaisesSwallowed(c) ==
    /\ syncPc = << "insert", c >>
    /\ syncPc' = << "update", c >>
    /\ UNCHANGED << t0ast, in_datasvc, released, datasvc, bindsInsert,
                    bindsUpdate, passInserts, passUpdates, insertedOK,
                    passClean, lastPassComplete, repeatPass >>
    /\ UNCHANGED syncFrame

\* insert...DAO.execute raises: nothing is inserted, the exception leaves the
\* method and the cycle.
SyncInsertRaises(c) ==
    /\ syncPc = << "insert", c >>
    /\ syncPc' = << "idle", "" >>
    /\ bindsInsert' = << >>
    /\ bindsUpdate' = << >>
    /\ UNCHANGED << t0ast, in_datasvc, released, datasvc, passInserts,
                    passUpdates, insertedOK, passClean, lastPassComplete,
                    repeatPass >>
    /\ UNCHANGED syncFrame

\* update...DAO.execute(binds = bindsUpdate) returns, and so does the method.
SyncUpdate(c) ==
    /\ syncPc = << "update", c >>
    /\ in_datasvc' = [ in_datasvc EXCEPT ![c] = UpdateFlags(c, @, bindsUpdate) ]
    /\ passUpdates' = passUpdates + 1
    /\ bindsInsert' = << >>
    /\ bindsUpdate' = << >>
    /\ syncPc' = AfterCategory(c)
    /\ lastPassComplete' = (EndOfPass(c) /\ passClean)
    /\ UNCHANGED << t0ast, released, datasvc, passInserts, insertedOK,
                    passClean, repeatPass >>
    /\ UNCHANGED syncFrame

\* The component dies (or a call raises) anywhere inside the pass: the
\* locals are lost, the stores keep what was written.
SyncCrash ==
    /\ syncPc # << "idle", "" >>
    /\ syncPc' = << "idle", "" >>
    /\ bindsInsert' = << >>
    /\ bindsUpdate' = << >>
    /\ UNCHANGED << t0ast, in_datasvc, released, datasvc, passInserts,
                    passUpdates, insertedOK, passClean, lastPassComplete,
                    repeatPass >>
    /\ UNCHANGED syncFrame

updateRunStreamDoneT0DataSvc ==
    \/ SyncGet("RunStreamDone")
    \/ SyncInsert("RunStreamDone")
    \/ SyncInsertRaises("RunStreamDone")
    \/ SyncUpdate("RunStreamDone")

updateExpressConfigsT0DataSvc ==
    \/ SyncGet("ExpressConfigs")
    \/ SyncInsert("ExpressConfigs")
    \/ SyncInsertRaises("ExpressConfigs")
    \/ SyncUpdate("ExpressConfigs")

updateRecoConfigsT0DataSvc ==
    \/ SyncGet("RecoConfigs")
    \/ SyncInsert("RecoConfigs")
    \/ SyncInsertRaises("RecoConfigs")
    \/ SyncUpdate("RecoConfigs")

updateRecoReleaseConfigsT0DataSvc ==
    \/ SyncGet("RecoReleaseConfigs")
    \/ SyncInsert("RecoReleaseConfigs")
    \/ SyncInsertRaises("RecoReleaseConfigs")
    \/ SyncUpdate("RecoReleaseConfigs")

lockDatasetsT0DataSvc ==
    \/ SyncGet("DatasetLocked")
    \/ SyncInsert("DatasetLocked")
    \/ SyncInsertRaises("DatasetLocked")
    \/ SyncUpdate("DatasetLocked")

SyncNext ==
    \/ \E c \in CategorySet : \E k \in Keys(c) : NewPrimaryRow(c, k)
    \/ \E run \in ReleaseRuns : ReleaseRun(run)
    \/ SyncBegin
    \/ updateRunStreamDoneT0DataSvc
    \/ updateExpressConfigsT0DataSvc
    \/ updateRecoConfigsT0DataSvc
    \/ updateRecoReleaseConfigsT0DataSvc
    \/ lockDatasetsT0DataSvc
    \/ SyncCrash

(***************************************************************************)
(*                          notifyStorageManager                           *)
(***************************************************************************)

\* Bound: how many times a batch of streamers finishes.
MaxArrivals == 3

\* chunkSize = 50
chunkSize == 50

\* The sizes of the batches of streamers that finish together.
ArrivalSizes == {1, chunkSize}

TransferDir == "/data/tier0"

\* The lfn of a streamer, as its path components.
Lfn(id) == << "store", "t0streamer", "Data", << "streamer", id >> >>

\* os.path.basename(lfn)
BaseName(lfn) == lfn[Len(lfn)]

\* SMNotification.GetFinishedStreamers: (id, lfn) of the streamers of closed
\* run/streams not yet marked, in id order.
GetFinishedStreamers ==
    LET keep(id) == id \notin deleted
        ids == SelectSeq([i \in 1 .. streamerCount |-> i], keep)
    IN  [ i \in 1 .. Len(ids) |-> << ids[i], Lfn(ids[i]) >> ]

\* range(start, stop, step) for a positive step
RECURSIVE Range(_, _, _)
Range(start, stop, step) ==
    IF start >= stop THEN << >>
    ELSE << start >> \o Range(start + step, stop, step)

\* list[i:j] for 0 <= i <= j
PySlice(list, i, j) ==
    SubSeq(list, i + 1, IF j < Len(list) THEN j ELSE Len(list))

\* Mutant: the slice starts one element late.
ChunkSkipsFirst(list, i) == PySlice(list, i + 1, i + chunkSize)

\* allFinishedStreamers[i:i+chunkSize]
Chunk(list, i) == PySlice(list, i, i + chunkSize)

\* [ all[i:i+chunkSize] for i in range(0, len(all), chunkSize) ]
Chunks(list) ==
    LET starts == Range(0, Len(list), chunkSize)
    IN  [ n \in 1 .. Len(starts) |-> Chunk(list, starts[n]) ]

\* The ids and the -FILENAME parameters built from a chunk.
ChunkIds(finishedStreamers) ==
    [ i \in 1 .. Len(finishedStreamers) |-> finishedStreamers[i][1] ]

FilenameParams(finishedStreamers) ==
    [ i \in 1 .. Len(finishedStreamers) |->
        << "-FILENAME", BaseName(finishedStreamers[i][2]) >> ]

SeqToSet(list) == { list[i] : i \in 1 .. Len(list) }

NotifyInit ==
    /\ streamerCount = 0
    /\ arrivals = 0
    /\ deleted = {}
    /\ notifyPc = "idle"
    /\ allFinishedStreamers = << >>
    /\ chunkQueue = << >>
    /\ streamers = << >>
    /\ invocations = << >>
    /\ markedInPhase = {}
    /\ deletedAtFetch = {}
    /\ notifyComplete = FALSE

\* More streamers belong to run/streams that are now closed.
StreamersFinish(k) ==
    /\ arrivals < MaxArrivals
    /\ arrivals' = arrivals + 1
    /\ streamerCount' = streamerCount + k
    /\ UNCHANGED << deleted, notifyPc, allFinishedStreamers, chunkQueue,
                    streamers, invocations, markedInPhase, deletedAtFetch,
                    notifyComplete >>
    /\ UNCHANGED notifyFrame

\* if self.transferSystemBaseDir != None: notifyStorageManager() fetches the
\* finished streamers and cuts them into chunks.
NotifyFetch ==
    /\ notifyPc = "idle"
    /\ transferSystemBaseDir # None
    /\ LET all == GetFinishedStreamers
           chunks == Chunks(all)
       IN  /\ allFinishedStreamers' = all
           /\ chunkQueue' = chunks
           /\ notifyPc' = IF chunks = << >> THEN "idle" ELSE "invoke"
           /\ notifyComplete' = (chunks = << >>)
    /\ streamers' = << >>
    /\ invocations' = << >>
    /\ markedInPhase' = {}
    /\ deletedAtFetch' = deleted
    /\ UNCHANGED << streamerCount, arrivals, deleted >>
    /\ UNCHANGED notifyFrame

\* The loop body up to p.communicate(): the notifier runs once on the
\* chunk's file names and may write to its error stream, which is logged.
NotifyInvoke(error) ==
    /\ notifyPc = "invoke"
    /\ LET finishedStreamers == Head(chunkQueue)
       IN  /\ streamers' = ChunkIds(finishedStreamers)
           /\ invocations' = Append(invocations,
                  [ base |-> transferSystemBaseDir,
                    params |-> FilenameParams(finishedStreamers),
                    error |-> error ])
    /\ notifyPc' = "mark"
    /\ UNCHANGED << streamerCount, arrivals, deleted, allFinishedStreamers,
                    chunkQueue, markedInPhase, deletedAtFetch, notifyComplete >>
    /\ UNCHANGED notifyFrame

\* Mutant: the mark is given every fetched streamer, not the chunk's.
NotifyMarkAllFetched ==
    /\ notifyPc = "mark"
    /\ deleted' = deleted \cup SeqToSet(ChunkIds(allFinishedStreamers))
    /\ markedInPhase' = markedInPhase \cup SeqToSet(ChunkIds(allFinishedStreamers))
    /\ chunkQueue' = Tail(chunkQueue)
    /\ streamers' = << >>
    /\ notifyPc' = IF Tail(chunkQueue) = << >> THEN "idle" ELSE "invoke"
    /\ notifyComplete' = (Tail(chunkQueue) = << >>)
    /\ UNCHANGED << streamerCount, arrivals, allFinishedStreamers, invocations,
                    deletedAtFetch >>
    /\ UNCHANGED notifyFrame

\* markStreamersFinishedDAO.execute(streamers), then the next chunk or return.
NotifyMark ==
    /\ notifyPc = "mark"
    /\ deleted' = deleted \cup SeqToSet(streamers)
    /\ markedInPhase' = markedInPhase \cup SeqToSet(streamers)
    /\ chunkQueue' = Tail(chunkQueue)
    /\ streamers' = << >>
    /\ notifyPc' = IF Tail(chunkQueue) = << >> THEN "idle" ELSE "invoke"
    /\ notifyComplete' = (Tail(chunkQueue) = << >>)
    /\ UNCHANGED << streamerCount, arrivals, allFinishedStreamers, invocations,
                    deletedAtFetch >>
    /\ UNCHANGED notifyFrame

\* The component dies, or Popen or a DAO raises, inside the phase.
NotifyCrash ==
    /\ notifyPc # "idle"
    /\ notifyPc' = "idle"
    /\ chunkQueue' = << >>
    /\ streamers' = << >>
    /\ UNCHANGED << streamerCount, arrivals, deleted, allFinishedStreamers,
                    invocations, markedInPhase, deletedAtFetch, notifyComplete >>
    /\ UNCHANGED notifyFrame

NotifyNext ==
    \/ \E k \in ArrivalSizes : StreamersFinish(k)
    \/ NotifyFetch
    \/ \E error \in BOOLEAN : NotifyInvoke(error)
    \/ NotifyMark
    \/ NotifyCrash


(***************************************************************************)
(*            feedCouchMonitoring and closeOutRealTimeWorkflows            *)
(***************************************************************************)

\* The workflows of one run: (id, run, name, kind).
WorkflowTable ==
    << [ id |-> 1, run |-> 1, kind |-> "Repack",
         name |-> << "R", "e", "p", "a", "c", "k", "_", "R", "u", "n", "1", "_", "S", "t", "r", "e", "a", "m", "A" >> ],
       [ id |-> 2, run |-> 1, kind |-> "Express",
         name |-> << "E", "x", "p", "r", "e", "s", "s", "_", "R", "u", "n", "1", "_", "S", "t", "r", "e", "a", "m", "E", "x", "p", "r", "e", "s", "s" >> ],
       [ id |-> 3, run |-> 1, kind |-> "PromptReco",
         name |-> << "P", "r", "o", "m", "p", "t", "R", "e", "c", "o", "_", "R", "u", "n", "1", "_", "C", "o", "s", "m", "i", "c", "s" >> ] >>

Workflows == { WorkflowTable[i].id : i \in 1 .. Len(WorkflowTable) }

WorkflowRow(id) ==
    WorkflowTable[CHOOSE i \in 1 .. Len(WorkflowTable) : WorkflowTable[i].id = id]

WorkflowNames == { WorkflowRow(w).name : w \in Workflows }

\* str.find(sub): the lowest index at which sub occurs in str, or -1.
Find(str, sub) ==
    LET at == { i \in 0 .. Len(str) - Len(sub) :
                    SubSeq(str, i + 1, i + Len(sub)) = sub }
    IN  IF at = {} THEN -1 ELSE Min(at)

PromptRecoPattern == << "P", "r", "o", "m", "p", "t", "R", "e", "c", "o" >>

\* The truth value Python gives a string.
Truthy(str) == str # ""

\* response == "OK" or "EXISTS"
ResponseAccepted(response) == (response = "OK") \/ Truthy("EXISTS")

\* The fileset's open column as the DAO hands it over: a string.
OpenColumn(open) == IF open THEN "1" ELSE "0"

\* Mutant: the open flag is read the wrong way round.
FilesetReportedClosedInverted(column) == column = "1"

\* filesetOpen == '0'
FilesetReportedClosed(column) == column = "0"

\* Tier0Feeder.GetStreamerWorkflowsForMonitoring and
\* GetPromptRecoWorkflowsForMonitoring: (id, run, name) of the workflows of
\* the given kinds that are not tracked yet.
WorkflowsForMonitoring(kinds) ==
    LET keep(row) == /\ row.kind \in kinds
                     /\ wfExists[row.id]
                     /\ ~wfTracked[row.id]
        rows == SelectSeq(WorkflowTable, keep)
    IN  [ i \in 1 .. Len(rows) |-> << rows[i].id, rows[i].run, rows[i].name >> ]

\* Tier0Feeder.GetNotClosedOutWorkflows: (id, fileset, open, name) of the
\* tracked workflows not marked closed out yet.
GetNotClosedOutWorkflows ==
    LET keep(row) == /\ wfExists[row.id]
                     /\ wfTracked[row.id]
                     /\ ~wfCloseout[row.id]
        rows == SelectSeq(WorkflowTable, keep)
    IN  [ i \in 1 .. Len(rows) |->
            << rows[i].id, rows[i].id, OpenColumn(filesetOpen[rows[i].id]),
               rows[i].name >> ]

\* What insertGenericRequest(doc) may answer, and what it leaves in the store.
InsertResponses(name) ==
    IF name \in DOMAIN couch THEN {"EXISTS", "ERROR"} ELSE {"OK", "ERROR"}

CouchAfterInsert(name, response) ==
    IF response = "OK"
    THEN [ n \in DOMAIN couch \cup {name} |-> IF n = name THEN "new" ELSE couch[n] ]
    ELSE couch

\* What updateRequestStatus(name, 'Closed') may answer, and what it leaves.
UpdateResponses(name) ==
    IF name \in DOMAIN couch THEN {"OK", "ERROR"} ELSE {"ERROR"}

CouchAfterUpdate(name, response) ==
    IF response = "OK" THEN [ couch EXCEPT ![name] = "Closed" ] ELSE couch

NoWorkflow == << >>

MonitorInit ==
    /\ wfExists = [ w \in Workflows |-> FALSE ]
    /\ wfTracked = [ w \in Workflows |-> FALSE ]
    /\ wfCloseout = [ w \in Workflows |-> FALSE ]
    /\ filesetOpen = [ w \in Workflows |-> TRUE ]
    /\ couch = << >>
    /\ monPc = "idle"
    /\ monQueue = << >>
    /\ monCurrent = NoWorkflow
    /\ monResponse = ""
    /\ insertResponse = [ w \in Workflows |-> "" ]
    /\ closeoutRows = << >>
    /\ closeoutMarked = {}
    /\ closeoutComplete = FALSE

\* ---- the workflow tables change under the poller ----

\* Configuration creates a workflow with an open fileset.
CreateWorkflow(w) ==
    /\ ~wfExists[w]
    /\ wfExists' = [ wfExists EXCEPT ![w] = TRUE ]
    /\ UNCHANGED << wfTracked, wfCloseout, filesetOpen, couch, monPc, monQueue,
                    monCurrent, monResponse, insertResponse, closeoutRows,
                    closeoutMarked, closeoutComplete >>
    /\ UNCHANGED monitorFrame

\* The workflow's fileset is closed (closeRunStreamFilesets).
CloseFileset(w) ==
    /\ wfExists[w]
    /\ filesetOpen[w]
    /\ filesetOpen' = [ filesetOpen EXCEPT ![w] = FALSE ]
    /\ UNCHANGED << wfExists, wfTracked, wfCloseout, couch, monPc, monQueue,
                    monCurrent, monResponse, insertResponse, closeoutRows,
                    closeoutMarked, closeoutComplete >>
    /\ UNCHANGED monitorFrame

\* ---- feedCouchMonitoring ----

\* The two queries; with no workflows the method returns.
FeedCouchFetch ==
    /\ monPc = "idle"
    /\ LET workflows == WorkflowsForMonitoring({"Repack", "Express"})
                          \o WorkflowsForMonitoring({"PromptReco"})
       IN  /\ monQueue' = workflows
           /\ monPc' = IF workflows = << >> THEN "closeout" ELSE "insert"
    /\ UNCHANGED << wfExists, wfTracked, wfCloseout, filesetOpen, couch,
                    monCurrent, monResponse, insertResponse, closeoutRows,
                    closeoutMarked, closeoutComplete >>
    /\ UNCHANGED monitorFrame

\* response = self.localRequestCouchDB.insertGenericRequest(doc)
FeedCouchInsert(response) ==
    /\ monPc = "insert"
    /\ LET workflowId == Head(monQueue)[1]
           workflowName == Head(monQueue)[3]
       IN  /\ response \in InsertResponses(workflowName)
           /\ couch' = CouchAfterInsert(workflowName, response)
           /\ insertResponse' = [ insertResponse EXCEPT ![workflowId] = response ]
    /\ monCurrent' = Head(monQueue)
    /\ monResponse' = response
    /\ monPc' = "track"
    /\ UNCHANGED << wfExists, wfTracked, wfCloseout, filesetOpen, monQueue,
                    closeoutRows, closeoutMarked, closeoutComplete >>
    /\ UNCHANGED monitorFrame

\* if response == "OK" or "EXISTS": markTrackedWorkflowMonitoringDAO.execute,
\* then the next workflow or return.
FeedCouchTrack ==
    /\ monPc = "track"
    /\ wfTracked' = IF ResponseAccepted(monResponse)
                    THEN [ wfTracked EXCEPT ![monCurrent[1]] = TRUE ]
                    ELSE wfTracked
    /\ monQueue' = Tail(monQueue)
    /\ monCurrent' = NoWorkflow
    /\ monResponse' = ""
    /\ monPc' = IF Tail(monQueue) = << >> THEN "closeout" ELSE "insert"
    /\ UNCHANGED << wfExists, wfCloseout, filesetOpen, couch, insertResponse,
                    closeoutRows, closeoutMarked, closeoutComplete >>
    /\ UNCHANGED monitorFrame

\* ---- closeOutRealTimeWorkflows and updateClosedState ----

CloseOutFetch ==
    /\ monPc = "closeout"
    /\ LET workflows == GetNotClosedOutWorkflows
       IN  /\ monQueue' = workflows
           /\ closeoutRows' = workflows
           /\ monPc' = IF workflows = << >> THEN "idle" ELSE "examine"
           /\ closeoutComplete' = (workflows = << >>)
    /\ closeoutMarked' = {}
    /\ UNCHANGED << wfExists, wfTracked, wfCloseout, filesetOpen, couch,
                    monCurrent, monResponse, insertResponse >>
    /\ UNCHANGED monitorFrame

\* The loop body: a PromptReco name, or a fileset reported closed, leads to
\* updateClosedState; otherwise the workflow is left for a later pass.
CloseOutExamine ==
    /\ monPc = "examine"
    /\ LET workflow == Head(monQueue)
           filesetColumn == workflow[3]
           workflowName == workflow[4]
           close == IF Find(workflowName, PromptRecoPattern) >= 0
                    THEN TRUE
                    ELSE FilesetReportedClosed(filesetColumn)
       IN  IF close
           THEN /\ monCurrent' = workflow
                /\ monPc' = "status"
                /\ UNCHANGED << monQueue, closeoutComplete >>
           ELSE /\ monCurrent' = NoWorkflow
                /\ monQueue' = Tail(monQueue)
                /\ monPc' = IF Tail(monQueue) = << >> THEN "idle" ELSE "examine"
                /\ closeoutComplete' = (Tail(monQueue) = << >>)
    /\ UNCHANGED << wfExists, wfTracked, wfCloseout, filesetOpen, couch,
                    monResponse, insertResponse, closeoutRows, closeoutMarked >>
    /\ UNCHANGED monitorFrame

\* response = self.localRequestCouchDB.updateRequestStatus(workflowName, 'Closed')
UpdateClosedStateRequest(response) ==
    /\ monPc = "status"
    /\ response \in UpdateResponses(monCurrent[4])
    /\ couch' = CouchAfterUpdate(monCurrent[4], response)
    /\ monResponse' = response
    /\ monPc' = "mark"
    /\ UNCHANGED << wfExists, wfTracked, wfCloseout, filesetOpen, monQueue,
                    monCurrent, insertResponse, closeoutRows, closeoutMarked,
                    closeoutComplete >>
    /\ UNCHANGED monitorFrame

\* if response == "OK" or "EXISTS": markCloseoutWorkflowMonitoringDAO.execute,
\* then back in the loop.
UpdateClosedStateMark ==
    /\ monPc = "mark"
    /\ IF ResponseAccepted(monResponse)
       THEN /\ wfCloseout' = [ wfCloseout EXCEPT ![monCurrent[1]] = TRUE ]
            /\ closeoutMarked' = closeoutMarked \cup {monCurrent[1]}
       ELSE UNCHANGED << wfCloseout, closeoutMarked >>
    /\ monQueue' = Tail(monQueue)
    /\ monCurrent' = NoWorkflow
    /\ monResponse' = ""
    /\ monPc' = IF Tail(monQueue) = << >> THEN "idle" ELSE "examine"
    /\ closeoutComplete' = (Tail(monQueue) = << >>)
    /\ UNCHANGED << wfExists, wfTracked, filesetOpen, couch, insertResponse,
                    closeoutRows >>
    /\ UNCHANGED monitorFrame

\* The component dies, or a store call raises, inside either method.
MonitorCrash ==
    /\ monPc # "idle"
    /\ monPc' = "idle"
    /\ monQueue' = << >>
    /\ monCurrent' = NoWorkflow
    /\ monResponse' = ""
    /\ UNCHANGED << wfExists, wfTracked, wfCloseout, filesetOpen, couch,
                    insertResponse, closeoutRows, closeoutMarked,
                    closeoutComplete >>
    /\ UNCHANGED monitorFrame

feedCouchMonitoring ==
    \/ FeedCouchFetch
    \/ \E response \in {"OK", "EXISTS", "ERROR"} : FeedCouchInsert(response)
    \/ FeedCouchTrack

closeOutRealTimeWorkflows ==
    \/ CloseOutFetch
    \/ CloseOutExamine

updateClosedState ==
    \/ \E response \in {"OK", "ERROR"} : UpdateClosedStateRequest(response)
    \/ UpdateClosedStateMark

MonitorNext ==
    \/ \E w \in Workflows : CreateWorkflow(w)
    \/ \E w \in Workflows : CloseFileset(w)
    \/ feedCouchMonitoring
    \/ closeOutRealTimeWorkflows
    \/ updateClosedState
    \/ MonitorCrash


(***************************************************************************)
(*                         The transactional feed                          *)
(***************************************************************************)

\* Bound: streamer files that may arrive.
MaxStreamerFiles == 2

StreamerFiles == 1 .. MaxStreamerFiles

\* Tier0Feeder.FeedStreamers: the streamer files to admit, those that belong
\* into an open fileset and are not in it yet.
FeedStreamers == streamerArrived \ filesetFiles

FeedInit ==
    /\ streamerArrived = {}
    /\ filesetFiles = {}
    /\ txWrites = {}
    /\ feedPc = "idle"
    /\ feedStartFiles = {}
    /\ feedOutcome = ""
    /\ failedWouldAdmit = {}
    /\ failedWrites = {}
    /\ sameStoreSinceFailure = FALSE
    /\ feedAdmitted = {}
    /\ feedRetry = FALSE

\* A streamer file arrives for an open fileset.
StreamerArrives(file) ==
    /\ file \notin streamerArrived
    /\ streamerArrived' = streamerArrived \cup {file}
    /\ sameStoreSinceFailure' = FALSE
    /\ UNCHANGED << filesetFiles, txWrites, feedPc, feedStartFiles, feedOutcome,
                    failedWouldAdmit, failedWrites, feedAdmitted, feedRetry >>
    /\ UNCHANGED feedFrame

\* myThread.transaction.begin()
FeedBegin ==
    /\ feedPc = "idle"
    /\ feedPc' = "begun"
    /\ feedStartFiles' = filesetFiles
    /\ feedOutcome' = "running"
    /\ txWrites' = {}
    /\ UNCHANGED << streamerArrived, filesetFiles, failedWouldAdmit,
                    failedWrites, sameStoreSinceFailure, feedAdmitted,
                    feedRetry >>
    /\ UNCHANGED feedFrame

\* begin() raises: no transaction, the except clause is entered.
FeedBeginRaises ==
    /\ feedPc = "idle"
    /\ feedPc' = "raised"
    /\ feedStartFiles' = filesetFiles
    /\ feedOutcome' = "running"
    /\ txWrites' = {}
    /\ failedWouldAdmit' = FeedStreamers
    /\ failedWrites' = {}
    /\ sameStoreSinceFailure' = TRUE
    /\ UNCHANGED << streamerArrived, filesetFiles, feedAdmitted, feedRetry >>
    /\ UNCHANGED feedFrame

\* feedStreamersDAO.execute(conn, transaction = True) returns.
FeedExecute ==
    /\ feedPc = "begun"
    /\ txWrites' = FeedStreamers
    /\ feedPc' = "executed"
    /\ UNCHANGED << streamerArrived, filesetFiles, feedStartFiles, feedOutcome,
                    failedWouldAdmit, failedWrites, sameStoreSinceFailure,
                    feedAdmitted, feedRetry >>
    /\ UNCHANGED feedFrame

\* feedStreamersDAO.execute raises after having written some admissions.
FeedExecuteRaises(written) ==
    /\ feedPc = "begun"
    /\ written \subseteq FeedStreamers
    /\ txWrites' = written
    /\ feedPc' = "raised"
    /\ failedWouldAdmit' = FeedStreamers
    /\ failedWrites' = written
    /\ sameStoreSinceFailure' = TRUE
    /\ UNCHANGED << streamerArrived, filesetFiles, feedStartFiles, feedOutcome,
                    feedAdmitted, feedRetry >>
    /\ UNCHANGED feedFrame

\* Mutant: the transaction is committed on the way out of the except clause.
FeedAbortCommits ==
    /\ feedPc = "raised"
    /\ filesetFiles' = filesetFiles \cup txWrites
    /\ txWrites' = {}
    /\ feedPc' = "idle"
    /\ feedOutcome' = "failed"
    /\ UNCHANGED << streamerArrived, feedStartFiles, failedWouldAdmit,
                    failedWrites, sameStoreSinceFailure, feedAdmitted,
                    feedRetry >>
    /\ UNCHANGED feedFrame

\* except: log and raise.  The cycle ends without a commit and the
\* transaction is discarded.
FeedAbort ==
    /\ feedPc = "raised"
    /\ txWrites' = {}
    /\ feedPc' = "idle"
    /\ feedOutcome' = "failed"
    /\ UNCHANGED << streamerArrived, filesetFiles, feedStartFiles,
                    failedWouldAdmit, failedWrites, sameStoreSinceFailure,
                    feedAdmitted, feedRetry >>
    /\ UNCHANGED feedFrame

\* else: myThread.transaction.commit()
FeedCommit ==
    /\ feedPc = "executed"
    /\ filesetFiles' = filesetFiles \cup txWrites
    /\ feedAdmitted' = txWrites
    /\ txWrites' = {}
    /\ feedPc' = "idle"
    /\ feedOutcome' = "committed"
    /\ feedRetry' = sameStoreSinceFailure
    /\ sameStoreSinceFailure' = FALSE
    /\ UNCHANGED << streamerArrived, feedStartFiles, failedWouldAdmit,
                    failedWrites >>
    /\ UNCHANGED feedFrame

\* The component dies inside the phase; the store drops the transaction.
FeedCrash ==
    /\ feedPc \in {"begun", "executed"}
    /\ txWrites' = {}
    /\ feedPc' = "idle"
    /\ feedOutcome' = ""
    /\ sameStoreSinceFailure' = FALSE
    /\ UNCHANGED << streamerArrived, filesetFiles, feedStartFiles,
                    failedWouldAdmit, failedWrites, feedAdmitted, feedRetry >>
    /\ UNCHANGED feedFrame

FeedNext ==
    \/ \E file \in StreamerFiles : StreamerArrives(file)
    \/ FeedBegin
    \/ FeedBeginRaises
    \/ FeedExecute
    \/ \E written \in SUBSET StreamerFiles : FeedExecuteRaises(written)
    \/ FeedAbort
    \/ FeedCommit
    \/ FeedCrash

(***************************************************************************)
(*                  Tier0FeederPoller.algorithm: one cycle                 *)
(***************************************************************************)

\* Bound: runs and run/stream pairs waiting for their configuration at any
\* one time.
MaxDiscovered == 4

NewRunIds == { 1, 2 }

\* The streams of a run, in the order sorted() gives them.
StreamNames == << "A", "Express" >>

Hltkeys == { None, "/cdaq/physics/Run/V1" }

RunStreamPairs == NewRunIds \X { StreamNames[i] : i \in 1 .. Len(StreamNames) }

StreamRank(stream) == CHOOSE i \in 1 .. Len(StreamNames) : StreamNames[i] = stream

\* sorted(runHltkeys.items())
RECURSIVE SortedItems(_)
SortedItems(runHltkeys) ==
    IF DOMAIN runHltkeys = {}
    THEN << >>
    ELSE LET run == Min(DOMAIN runHltkeys)
         IN  << << run, runHltkeys[run] >> >>
               \o SortedItems([ r \in DOMAIN runHltkeys \ {run} |-> runHltkeys[r] ])

\* for run in sorted(runStreams.keys()): for stream in sorted(runStreams[run])
RECURSIVE SortedPairs(_)
SortedPairs(pairs) ==
    IF pairs = {}
    THEN << >>
    ELSE LET run == Min({ pair[1] : pair \in pairs })
             rank == Min({ StreamRank(pair[2]) : pair \in { q \in pairs : q[1] = run } })
             first == << run, StreamNames[rank] >>
         IN  << first >> \o SortedPairs(pairs \ {first})

\* What RunConfig.GetHLTConfig may do for a hltkey: raise, or return a
\* configuration with or without a process and with or without mappings.
HLTLookups == { "raises", "noProcess", "emptyMapping", "valid" }

GetHLTConfig(lookup) ==
    [ process |-> IF lookup = "noProcess" THEN None ELSE "HLT",
      mapping |-> IF lookup = "emptyMapping" THEN << >> ELSE << "Stream_A" >> ]

\* hltConfig['process'] == None or len(hltConfig['mapping']) == 0
HLTConfigUnusable(hltConfig) ==
    hltConfig.process = None \/ Len(hltConfig.mapping) = 0

\* The calls of the five sync sub-phases, in the order of the code.
SyncCalls ==
    << "updateRunStreamDoneT0DataSvc", "updateExpressConfigsT0DataSvc",
       "updateRecoConfigsT0DataSvc", "updateRecoReleaseConfigsT0DataSvc",
       "lockDatasetsT0DataSvc" >>

\* The runs that may wait for their Express release or be reported ready.
ExpressRuns == { 1, 2, 3 }

\* Tier0Feeder.GetExpressReadyRuns: of the runs bound, those the PopConLog
\* database reports ready.
GetExpressReadyRuns(binds, ready) == binds \cap ready

CycleInit ==
    /\ unconfiguredRuns = << >>
    /\ newRunStreams = {}
    /\ cyclePc = "idle"
    /\ cycleOutcome = ""
    /\ tier0Config = None
    /\ runQueue = << >>
    /\ pairQueue = << >>
    /\ ran = << >>
    /\ runsFound = {}
    /\ pairsFound = {}
    /\ lookupFailed = {}
    /\ configureRunCalls = {}
    /\ configureRunRaised = {}
    /\ configureRunStreamCalls = {}
    /\ configureRunStreamRaised = {}
    /\ expressCandidates = {}
    /\ expressReady = {}
    /\ expressReleased = {}
    /\ notifierError = FALSE
    /\ streamersMarked = FALSE
    /\ uploadError = FALSE
    /\ injectedFlags = {}

\* What the two configuration loops found and did in this cycle.
loopTrace == << runsFound, pairsFound, lookupFailed, configureRunCalls,
                configureRunRaised, configureRunStreamCalls,
                configureRunStreamRaised >>

\* What the Express release saw and released in this cycle.
expressTrace == << expressCandidates, expressReady, expressReleased >>

\* What the cycle gave to the injection marking, and what came of the
\* notifier and of the conditions upload in this cycle.
externalTrace == << notifierError, streamersMarked, uploadError, injectedFlags >>

cycleLocals == << tier0Config, runQueue, pairQueue, loopTrace, expressTrace,
                 externalTrace >>

\* ---- between cycles, data taking goes on ----

Discovered == Cardinality(DOMAIN unconfiguredRuns) + Cardinality(newRunStreams)

\* A new run starts; local runs have no hltkey.
NewRun(run, hltkey) ==
    /\ cyclePc = "idle"
    /\ Discovered < MaxDiscovered
    /\ run \notin DOMAIN unconfiguredRuns
    /\ unconfiguredRuns' =
          [ r \in DOMAIN unconfiguredRuns \cup {run} |->
              IF r = run THEN hltkey ELSE unconfiguredRuns[r] ]
    /\ UNCHANGED << newRunStreams, cyclePc, cycleOutcome, ran, cycleLocals >>
    /\ UNCHANGED cycleFrame

\* Data of a stream that is not configured for its run arrives.
NewRunStream(run, stream) ==
    /\ cyclePc = "idle"
    /\ Discovered < MaxDiscovered
    /\ << run, stream >> \notin newRunStreams
    /\ newRunStreams' = newRunStreams \cup { << run, stream >> }
    /\ UNCHANGED << unconfiguredRuns, cyclePc, cycleOutcome, ran, cycleLocals >>
    /\ UNCHANGED cycleFrame

\* ---- the cycle ----

\* The call at position `from` returns and the cycle moves on to `to`.
Step(from, to) ==
    /\ cyclePc = from
    /\ ran' = Append(ran, from)
    /\ cyclePc' = to
    /\ cycleOutcome' = IF to = "returned" THEN "done" ELSE cycleOutcome
    /\ UNCHANGED << unconfiguredRuns, newRunStreams, cycleLocals >>
    /\ UNCHANGED cycleFrame

\* Variant: the exception is swallowed and algorithm() returns.
PropagateSwallowed(calls) ==
    /\ ran' = ran \o calls
    /\ cyclePc' = "returned"
    /\ cycleOutcome' = "done"

\* An exception leaves algorithm().
Propagate(calls) ==
    /\ ran' = ran \o calls
    /\ cyclePc' = "returned"
    /\ cycleOutcome' = "raised"

\* The scheduler calls algorithm().
CycleStart ==
    /\ cyclePc = "idle"
    /\ cyclePc' = "loadConfigurationFile"
    /\ cycleOutcome' = "running"
    /\ tier0Config' = None
    /\ runQueue' = << >>
    /\ pairQueue' = << >>
    /\ ran' = << >>
    /\ runsFound' = {}
    /\ pairsFound' = {}
    /\ lookupFailed' = {}
    /\ configureRunCalls' = {}
    /\ configureRunRaised' = {}
    /\ configureRunStreamCalls' = {}
    /\ configureRunStreamRaised' = {}
    /\ expressCandidates' = {}
    /\ expressReady' = {}
    /\ expressReleased' = {}
    /\ notifierError' = FALSE
    /\ streamersMarked' = FALSE
    /\ uploadError' = FALSE
    /\ injectedFlags' = {}
    /\ UNCHANGED << unconfiguredRuns, newRunStreams >>
    /\ UNCHANGED cycleFrame

\* Mutant: algorithm() returns when the configuration cannot be loaded.
LoadConfigurationOrReturn(loads) ==
    /\ cyclePc = "loadConfigurationFile"
    /\ tier0Config' = IF loads THEN "tier0Config" ELSE None
    /\ cyclePc' = IF loads THEN "findNewRuns" ELSE "returned"
    /\ cycleOutcome' = IF loads THEN cycleOutcome ELSE "done"
    /\ UNCHANGED << unconfiguredRuns, newRunStreams, ran, runQueue, pairQueue,
                    runsFound, pairsFound, lookupFailed, configureRunCalls,
                    configureRunRaised, configureRunStreamCalls,
                    configureRunStreamRaised >>
    /\ UNCHANGED << expressTrace, externalTrace >>
    /\ UNCHANGED cycleFrame

\* tier0Config = loadConfigurationFile(...), None when that raises; the two
\* configuration loops are entered only with a configuration.
LoadConfiguration(loads) ==
    /\ cyclePc = "loadConfigurationFile"
    /\ tier0Config' = IF loads THEN "tier0Config" ELSE None
    /\ cyclePc' = IF tier0Config' # None THEN "findNewRuns" ELSE "stopRuns"
    /\ UNCHANGED << unconfiguredRuns, newRunStreams, cycleOutcome, ran,
                    runQueue, pairQueue, runsFound, pairsFound, lookupFailed,
                    configureRunCalls, configureRunRaised,
                    configureRunStreamCalls, configureRunStreamRaised >>
    /\ UNCHANGED << expressTrace, externalTrace >>
    /\ UNCHANGED cycleFrame

\* runHltkeys = findNewRunsDAO.execute(); the loop runs over the sorted items.
FindNewRuns ==
    /\ cyclePc = "findNewRuns"
    /\ ran' = Append(ran, "findNewRuns")
    /\ runsFound' = DOMAIN unconfiguredRuns
    /\ runQueue' = SortedItems(unconfiguredRuns)
    /\ cyclePc' = IF DOMAIN unconfiguredRuns = {} THEN "findNewRunStreams"
                                                 ELSE "runLoop"
    /\ UNCHANGED << unconfiguredRuns, newRunStreams, cycleOutcome, tier0Config,
                    pairQueue, pairsFound, lookupFailed, configureRunCalls,
                    configureRunRaised, configureRunStreamCalls,
                    configureRunStreamRaised >>
    /\ UNCHANGED << expressTrace, externalTrace >>
    /\ UNCHANGED cycleFrame

\* Mutant: a failed trigger lookup leaves the loop (break for continue).
ConfigureRunOrBreak(lookup, raises) ==
    /\ cyclePc = "runLoop"
    /\ LET run == Head(runQueue)[1]
           hltkey == Head(runQueue)[2]
           skipped == /\ hltkey # None
                      /\ \/ lookup = "raises"
                         \/ HLTConfigUnusable(GetHLTConfig(lookup))
           rest == IF skipped THEN << >> ELSE Tail(runQueue)
       IN  /\ IF skipped
              THEN /\ lookupFailed' = lookupFailed \cup {run}
                   /\ UNCHANGED << configureRunCalls, configureRunRaised,
                                   unconfiguredRuns >>
              ELSE /\ configureRunCalls' = configureRunCalls \cup
                          { << run, IF hltkey = None THEN None ELSE lookup >> }
                   /\ configureRunRaised' =
                          IF raises THEN configureRunRaised \cup {run}
                                    ELSE configureRunRaised
                   /\ unconfiguredRuns' =
                          IF raises
                          THEN unconfiguredRuns
                          ELSE [ r \in DOMAIN unconfiguredRuns \ {run} |->
                                     unconfiguredRuns[r] ]
                   /\ UNCHANGED lookupFailed
           /\ runQueue' = rest
           /\ cyclePc' = IF rest = << >> THEN "findNewRunStreams" ELSE "runLoop"
    /\ UNCHANGED << newRunStreams, cycleOutcome, tier0Config, pairQueue, ran,
                    runsFound, pairsFound, configureRunStreamCalls,
                    configureRunStreamRaised >>
    /\ UNCHANGED << expressTrace, externalTrace >>
    /\ UNCHANGED cycleFrame

\* Variant: the trigger configuration is used as the lookup returned it,
\* without the check of its process and mapping.
ConfigureRunUnchecked(lookup, raises) ==
    /\ cyclePc = "runLoop"
    /\ LET run == Head(runQueue)[1]
           hltkey == Head(runQueue)[2]
           skipped == hltkey # None /\ lookup = "raises"
           rest == Tail(runQueue)
       IN  /\ IF skipped
              THEN /\ lookupFailed' = lookupFailed \cup {run}
                   /\ UNCHANGED << configureRunCalls, configureRunRaised,
                                   unconfiguredRuns >>
              ELSE /\ configureRunCalls' = configureRunCalls \cup
                          { << run, IF hltkey = None THEN None ELSE lookup >> }
                   /\ configureRunRaised' =
                          IF raises THEN configureRunRaised \cup {run}
                                    ELSE configureRunRaised
                   /\ unconfiguredRuns' =
                          IF raises
                          THEN unconfiguredRuns
                          ELSE [ r \in DOMAIN unconfiguredRuns \ {run} |->
                                     unconfiguredRuns[r] ]
                   /\ UNCHANGED lookupFailed
           /\ runQueue' = rest
           /\ cyclePc' = IF rest = << >> THEN "findNewRunStreams" ELSE "runLoop"
    /\ UNCHANGED << newRunStreams, cycleOutcome, tier0Config, pairQueue, ran,
                    runsFound, pairsFound, configureRunStreamCalls,
                    configureRunStreamRaised >>
    /\ UNCHANGED << expressTrace, externalTrace >>
    /\ UNCHANGED cycleFrame

\* One iteration of the run loop.  A run with a hltkey needs a usable trigger
\* configuration: when the lookup raises or returns no process or no mapping
\* the run is skipped (continue).  configureRun is called with the
\* configuration (None for a local run); an exception it raises is logged.
ConfigureRun(lookup, raises) ==
    /\ cyclePc = "runLoop"
    /\ LET run == Head(runQueue)[1]
           hltkey == Head(runQueue)[2]
           skipped == /\ hltkey # None
                      /\ \/ lookup = "raises"
                         \/ HLTConfigUnusable(GetHLTConfig(lookup))
           rest == Tail(runQueue)
       IN  /\ IF skipped
              THEN /\ lookupFailed' = lookupFailed \cup {run}
                   /\ UNCHANGED << configureRunCalls, configureRunRaised,
                                   unconfiguredRuns >>
              ELSE /\ configureRunCalls' = configureRunCalls \cup
                          { << run, IF hltkey = None THEN None ELSE lookup >> }
                   /\ configureRunRaised' =
                          IF raises THEN configureRunRaised \cup {run}
                                    ELSE configureRunRaised
                   /\ unconfiguredRuns' =
                          IF raises
                          THEN unconfiguredRuns
                          ELSE [ r \in DOMAIN unconfiguredRuns \ {run} |->
                                     unconfiguredRuns[r] ]
                   /\ UNCHANGED lookupFailed
           /\ runQueue' = rest
           /\ cyclePc' = IF rest = << >> THEN "findNewRunStreams" ELSE "runLoop"
    /\ UNCHANGED << newRunStreams, cycleOutcome, tier0Config, pairQueue, ran,
                    runsFound, pairsFound, configureRunStreamCalls,
                    configureRunStreamRaised >>
    /\ UNCHANGED << expressTrace, externalTrace >>
    /\ UNCHANGED cycleFrame

\* runStreams = findNewRunStreamsDAO.execute(); the loops run over the sorted
\* runs and, for each, its sorted streams.
FindNewRunStreams ==
    /\ cyclePc = "findNewRunStreams"
    /\ ran' = Append(ran, "findNewRunStreams")
    /\ pairsFound' = newRunStreams
    /\ pairQueue' = SortedPairs(newRunStreams)
    /\ cyclePc' = IF newRunStreams = {} THEN "stopRuns" ELSE "runStreamLoop"
    /\ UNCHANGED << unconfiguredRuns, newRunStreams, cycleOutcome, tier0Config,
                    runQueue, runsFound, lookupFailed, configureRunCalls,
                    configureRunRaised, configureRunStreamCalls,
                    configureRunStreamRaised >>
    /\ UNCHANGED << expressTrace, externalTrace >>
    /\ UNCHANGED cycleFrame

\* One iteration of the run/stream loops: configureRunStream is called; an
\* exception it raises is logged.
ConfigureRunStream(raises) ==
    /\ cyclePc = "runStreamLoop"
    /\ LET pair == Head(pairQueue)
       IN  /\ configureRunStreamCalls' = configureRunStreamCalls \cup {pair}
           /\ configureRunStreamRaised' =
                  IF raises THEN configureRunStreamRaised \cup {pair}
                            ELSE configureRunStreamRaised
           /\ newRunStreams' =
                  IF raises THEN newRunStreams ELSE newRunStreams \ {pair}
    /\ pairQueue' = Tail(pairQueue)
    /\ cyclePc' = IF Tail(pairQueue) = << >> THEN "stopRuns" ELSE "runStreamLoop"
    /\ UNCHANGED << unconfiguredRuns, cycleOutcome, tier0Config, runQueue, ran,
                    runsFound, pairsFound, lookupFailed, configureRunCalls,
                    configureRunRaised >>
    /\ UNCHANGED << expressTrace, externalTrace >>
    /\ UNCHANGED cycleFrame

\* RunLumiCloseoutAPI.stopRuns; the configuration loops are behind and
\* what they found and did is dropped from the trace.
StopRuns ==
    /\ cyclePc = "stopRuns"
    /\ ran' = Append(ran, "stopRuns")
    /\ cyclePc' = "closeRuns"
    /\ runsFound' = {}
    /\ pairsFound' = {}
    /\ lookupFailed' = {}
    /\ configureRunCalls' = {}
    /\ configureRunRaised' = {}
    /\ configureRunStreamCalls' = {}
    /\ configureRunStreamRaised' = {}
    /\ UNCHANGED << unconfiguredRuns, newRunStreams, cycleOutcome, tier0Config,
                    runQueue, pairQueue >>
    /\ UNCHANGED << expressTrace, externalTrace >>
    /\ UNCHANGED cycleFrame

\* RunLumiCloseoutAPI.closeRuns
CloseRuns == Step("closeRuns", "findNewExpressRuns")

\* Mutant: the binds given to ReleaseExpress are not rebuilt after the
\* readiness source filtered the runs.
ReleaseExpressStaleBinds(candidates, ready) ==
    /\ cyclePc = "findNewExpressRuns"
    /\ LET filtered == candidates # {} /\ getExpressReadyRunsDAO # None
           runs == IF filtered THEN GetExpressReadyRuns(candidates, ready)
                               ELSE candidates
           calls == << "findNewExpressRuns" >>
                      \o ( IF filtered THEN << "getExpressReadyRuns" >> ELSE << >> )
                      \o ( IF runs # {} THEN << "releaseExpress" >> ELSE << >> )
       IN  /\ expressReleased' = IF runs # {} THEN candidates ELSE {}
           /\ ran' = ran \o calls
    /\ expressCandidates' = candidates
    /\ expressReady' = ready
    /\ cyclePc' = "releasePromptReco"
    /\ UNCHANGED << unconfiguredRuns, newRunStreams, cycleOutcome, tier0Config,
                    runQueue, pairQueue, loopTrace, externalTrace >>
    /\ UNCHANGED cycleFrame

\* The Express release.  runs = findNewExpressRunsDAO.execute(); when there
\* are any they are bound and, with a readiness source, replaced by what
\* getExpressReadyRunsDAO returns for the binds; when any are left they are
\* bound again and given to releaseExpressDAO.
ReleaseExpress(candidates, ready) ==
    /\ cyclePc = "findNewExpressRuns"
    /\ LET filtered == candidates # {} /\ getExpressReadyRunsDAO # None
           runs == IF filtered THEN GetExpressReadyRuns(candidates, ready)
                               ELSE candidates
           calls == << "findNewExpressRuns" >>
                      \o ( IF filtered THEN << "getExpressReadyRuns" >> ELSE << >> )
                      \o ( IF runs # {} THEN << "releaseExpress" >> ELSE << >> )
       IN  /\ expressReleased' = runs
           /\ ran' = ran \o calls
    /\ expressCandidates' = candidates
    /\ expressReady' = ready
    /\ cyclePc' = "releasePromptReco"
    /\ UNCHANGED << unconfiguredRuns, newRunStreams, cycleOutcome, tier0Config,
                    runQueue, pairQueue, loopTrace, externalTrace >>
    /\ UNCHANGED cycleFrame

\* RunConfigAPI.releasePromptReco(tier0Config, ...), then the gate of the
\* sync sub-phases.  The Express release is behind and what it saw is
\* dropped from the trace.
ReleasePromptReco ==
    /\ cyclePc = "releasePromptReco"
    /\ ran' = Append(ran, "releasePromptReco")
    /\ cyclePc' = IF haveT0DataSvc THEN SyncCalls[1] ELSE "markWorkflowsInjected"
    /\ expressCandidates' = {}
    /\ expressReady' = {}
    /\ expressReleased' = {}
    /\ UNCHANGED << unconfiguredRuns, newRunStreams, cycleOutcome, tier0Config,
                    runQueue, pairQueue, loopTrace, externalTrace >>
    /\ UNCHANGED cycleFrame

\* The five sync sub-phases, one after the other.
SyncT0DataSvc ==
    \E i \in 1 .. Len(SyncCalls) :
        Step(SyncCalls[i],
             IF i < Len(SyncCalls) THEN SyncCalls[i + 1]
                                   ELSE "markWorkflowsInjected")

\* Variant: the lumi closeout is called before the injection marking.
CloseLumisAndMarkInjected ==
    /\ \/ /\ cyclePc = "markWorkflowsInjected"
          /\ ran' = Append(ran, "closeLumiSections")
          /\ cyclePc' = "closeLumiSections"
          /\ UNCHANGED injectedFlags
       \/ /\ cyclePc = "closeLumiSections"
          /\ ran' = Append(ran, "markWorkflowsInjected")
          /\ cyclePc' = "feedStreamers"
          /\ injectedFlags' = { transferSystemBaseDir # None }
    /\ UNCHANGED << unconfiguredRuns, newRunStreams, cycleOutcome, tier0Config,
                    runQueue, pairQueue, loopTrace, expressTrace,
                    notifierError, streamersMarked, uploadError >>
    /\ UNCHANGED cycleFrame

\* markWorkflowsInjectedDAO.execute(self.transferSystemBaseDir != None)
\* and RunLumiCloseoutAPI.closeLumiSections
MarkInjectedAndCloseLumis ==
    \/ /\ cyclePc = "markWorkflowsInjected"
       /\ ran' = Append(ran, "markWorkflowsInjected")
       /\ cyclePc' = "closeLumiSections"
       /\ injectedFlags' = { transferSystemBaseDir # None }
       /\ UNCHANGED << unconfiguredRuns, newRunStreams, cycleOutcome,
                       tier0Config, runQueue, pairQueue, loopTrace,
                       expressTrace, notifierError, streamersMarked,
                       uploadError >>
       /\ UNCHANGED cycleFrame
    \/ Step("closeLumiSections", "feedStreamers")

\* Variant: the exception of the feed is logged and not raised again.
FeedSwallows(outcome) ==
    /\ cyclePc = "feedStreamers"
    /\ ran' = ran \o ( CASE outcome = "beginRaises" -> << "begin" >>
                         [] outcome = "executeRaises" -> << "begin", "feedStreamers" >>
                         [] outcome = "commits" -> << "begin", "feedStreamers", "commit" >> )
    /\ cyclePc' = "closeRunStreamFilesets"
    /\ UNCHANGED cycleOutcome
    /\ UNCHANGED << unconfiguredRuns, newRunStreams, cycleLocals >>
    /\ UNCHANGED cycleFrame

\* The feed: begin, execute and, when neither raised, commit; an exception
\* is logged and raised again.
Feed(outcome) ==
    /\ cyclePc = "feedStreamers"
    /\ CASE outcome = "beginRaises" ->
              Propagate(<< "begin" >>)
         [] outcome = "executeRaises" ->
              Propagate(<< "begin", "feedStreamers" >>)
         [] outcome = "commits" ->
              /\ ran' = ran \o << "begin", "feedStreamers", "commit" >>
              /\ cyclePc' = "closeRunStreamFilesets"
              /\ UNCHANGED cycleOutcome
    /\ UNCHANGED << unconfiguredRuns, newRunStreams, cycleLocals >>
    /\ UNCHANGED cycleFrame

\* Variant: the conditions upload behind the gate of the notification.
CloseoutAndMonitoringGatedUpload ==
    \/ Step("closeRunStreamFilesets", "checkActiveSplitLumis")
    \/ Step("checkActiveSplitLumis", "feedCouchMonitoring")
    \/ Step("feedCouchMonitoring", "closeOutRealTimeWorkflows")
    \/ Step("closeOutRealTimeWorkflows",
            IF transferSystemBaseDir # None THEN "notifyStorageManager"
                                            ELSE "returned")

\* closeRunStreamFilesets, checkActiveSplitLumis, feedCouchMonitoring,
\* closeOutRealTimeWorkflows, then the gate of the notification.
CloseoutAndMonitoring ==
    \/ Step("closeRunStreamFilesets", "checkActiveSplitLumis")
    \/ Step("checkActiveSplitLumis", "feedCouchMonitoring")
    \/ Step("feedCouchMonitoring", "closeOutRealTimeWorkflows")
    \/ Step("closeOutRealTimeWorkflows",
            IF transferSystemBaseDir # None THEN "notifyStorageManager"
                                            ELSE "uploadConditions")

\* Variant: the streamers are marked only when the notifier reported no
\* error.
NotifyStorageManagerMarksOnSuccess(error) ==
    /\ cyclePc = "notifyStorageManager"
    /\ ran' = Append(ran, "notifyStorageManager")
    /\ notifierError' = error
    /\ streamersMarked' = ~error
    /\ cyclePc' = "uploadConditions"
    /\ UNCHANGED << unconfiguredRuns, newRunStreams, cycleOutcome, tier0Config,
                    runQueue, pairQueue, loopTrace, expressTrace, uploadError,
                    injectedFlags >>
    /\ UNCHANGED cycleFrame

\* self.notifyStorageManager() with streamers to notify: what the notifier
\* writes to its error stream is logged, and the streamers are marked
\* whether or not it wrote any.
NotifyStorageManager(error) ==
    /\ cyclePc = "notifyStorageManager"
    /\ ran' = Append(ran, "notifyStorageManager")
    /\ notifierError' = error
    /\ streamersMarked' = TRUE
    /\ cyclePc' = "uploadConditions"
    /\ UNCHANGED << unconfiguredRuns, newRunStreams, cycleOutcome, tier0Config,
                    runQueue, pairQueue, loopTrace, expressTrace, uploadError,
                    injectedFlags >>
    /\ UNCHANGED cycleFrame

\* Variant: a failed upload is raised to the caller.
UploadConditionsRaisesOnError(error) == error

\* ConditionUploadAPI.uploadConditions: a failed upload is logged and not
\* raised to the caller.
UploadConditionsRaises(error) == FALSE

\* ConditionUploadAPI.uploadConditions(...); return
UploadConditions(error) ==
    /\ cyclePc = "uploadConditions"
    /\ uploadError' = error
    /\ IF UploadConditionsRaises(error)
       THEN Propagate(<< "uploadConditions" >>)
       ELSE /\ ran' = Append(ran, "uploadConditions")
            /\ cyclePc' = "returned"
            /\ cycleOutcome' = "done"
    /\ UNCHANGED << unconfiguredRuns, newRunStreams, tier0Config, runQueue,
                    pairQueue, loopTrace, expressTrace, notifierError,
                    streamersMarked, injectedFlags >>
    /\ UNCHANGED cycleFrame

\* algorithm() is left, by return or by the exception; its locals are gone
\* and the scheduler waits for the next poll.
CycleEnd ==
    /\ cyclePc = "returned"
    /\ cyclePc' = "idle"
    /\ cycleOutcome' = ""
    /\ tier0Config' = None
    /\ ran' = << >>
    /\ runQueue' = << >>
    /\ pairQueue' = << >>
    /\ runsFound' = {}
    /\ pairsFound' = {}
    /\ lookupFailed' = {}
    /\ configureRunCalls' = {}
    /\ configureRunRaised' = {}
    /\ configureRunStreamCalls' = {}
    /\ configureRunStreamRaised' = {}
    /\ expressCandidates' = {}
    /\ expressReady' = {}
    /\ expressReleased' = {}
    /\ notifierError' = FALSE
    /\ streamersMarked' = FALSE
    /\ uploadError' = FALSE
    /\ injectedFlags' = {}
    /\ UNCHANGED << unconfiguredRuns, newRunStreams >>
    /\ UNCHANGED cycleFrame

\* The calls made outside any try block.
UnprotectedCalls ==
    { "findNewRuns", "findNewRunStreams", "stopRuns", "closeRuns",
      "findNewExpressRuns", "releasePromptReco", "markWorkflowsInjected",
      "closeLumiSections", "closeRunStreamFilesets", "checkActiveSplitLumis",
      "feedCouchMonitoring", "closeOutRealTimeWorkflows",
      "notifyStorageManager" }
      \cup { SyncCalls[i] : i \in 1 .. Len(SyncCalls) }

\* The call the cycle is making raises; nothing catches the exception.
Raise ==
    /\ cyclePc \in UnprotectedCalls
    /\ Propagate(<< cyclePc >>)
    /\ UNCHANGED << unconfiguredRuns, newRunStreams, cycleLocals >>
    /\ UNCHANGED cycleFrame

Next ==
    \/ \E run \in NewRunIds, hltkey \in Hltkeys : NewRun(run, hltkey)
    \/ \E pair \in RunStreamPairs : NewRunStream(pair[1], pair[2])
    \/ CycleStart
    \/ \E loads \in BOOLEAN : LoadConfiguration(loads)
    \/ FindNewRuns
    \/ \E lookup \in HLTLookups, raises \in BOOLEAN : ConfigureRun(lookup, raises)
    \/ FindNewRunStreams
    \/ \E raises \in BOOLEAN : ConfigureRunStream(raises)
    \/ StopRuns
    \/ CloseRuns
    \/ \E candidates, ready \in SUBSET ExpressRuns : ReleaseExpress(candidates, ready)
    \/ ReleasePromptReco
    \/ SyncT0DataSvc
    \/ MarkInjectedAndCloseLumis
    \/ \E outcome \in {"beginRaises", "executeRaises", "commits"} : Feed(outcome)
    \/ CloseoutAndMonitoring
    \/ \E error \in BOOLEAN : NotifyStorageManager(error)
    \/ \E error \in BOOLEAN : UploadConditions(error)
    \/ Raise
    \/ CycleEnd


(***************************************************************************)
(*                              Specifications                             *)
(***************************************************************************)

\* The state after construction with the given configuration: the tables
\* are empty and no method is running.
Constructed(transferDir, exists, svcUrl, popConLogUrl) ==
    /\ QueryInit
    /\ PollerInit(transferDir, exists, svcUrl, popConLogUrl)
    /\ SyncInit
    /\ NotifyInit
    /\ MonitorInit
    /\ FeedInit
    /\ CycleInit

\* The query over changing tables; the poller is constructed and idle.
InitQuery == Constructed(None, FALSE, FALSE, FALSE)

SpecQuery == InitQuery /\ [][QueryNext]_vars

\* The sync pass of a poller constructed with a Data Service connect url.
InitSync == Constructed(None, FALSE, TRUE, FALSE)

SpecSync == InitSync /\ [][SyncNext]_vars

\* The sync pass of a component constructed with or without a downstream
\* store.
InitSyncGate ==
    \E svcUrl \in BOOLEAN : Constructed(None, FALSE, svcUrl, FALSE)

SpecSyncGate == InitSyncGate /\ [][SyncNext]_vars

\* A step of a pass that neither raises nor crashes.
SyncProgress ==
    \/ SyncBegin
    \/ \E c \in CategorySet : SyncGet(c) \/ SyncInsert(c) \/ SyncUpdate(c)

\* A pass ends in an exception or a crash.
SyncFails ==
    \/ SyncCrash
    \/ \E c \in CategorySet : SyncInsertRaises(c)

\* The scheduler keeps calling the cycle and a pass that is not interrupted
\* goes on; from some time on no pass crashes any more.
SyncFairness ==
    /\ WF_vars(SyncProgress)
    /\ <>[][~SyncFails]_vars

\* The primary store changes between passes.
SyncQuietNext ==
    \/ /\ syncPc = << "idle", "" >>
       /\ \/ \E c \in CategorySet : \E k \in Keys(c) : NewPrimaryRow(c, k)
          \/ \E run \in ReleaseRuns : ReleaseRun(run)
    \/ SyncBegin
    \/ updateRunStreamDoneT0DataSvc
    \/ updateExpressConfigsT0DataSvc
    \/ updateRecoConfigsT0DataSvc
    \/ updateRecoReleaseConfigsT0DataSvc
    \/ lockDatasetsT0DataSvc
    \/ SyncCrash

SpecSyncFair == InitSync /\ [][SyncQuietNext]_vars /\ SyncFairness

\* The notification phase of a poller constructed with an existing transfer
\* directory.
InitNotify == Constructed(TransferDir, TRUE, FALSE, FALSE)

SpecNotify == InitNotify /\ [][NotifyNext]_vars

\* The notification phase called cycle after cycle: the statements of the
\* method make progress, and from some time on no call is cut short.
NotifyProgress ==
    NotifyFetch \/ (\E error \in BOOLEAN : NotifyInvoke(error)) \/ NotifyMark

NotifyFairness == WF_vars(NotifyProgress) /\ <>[][~NotifyCrash]_vars

SpecNotifyFair == InitNotify /\ [][NotifyNext]_vars /\ NotifyFairness

\* The two monitoring methods, run one after the other as the cycle does.
InitMonitor == Constructed(None, FALSE, FALSE, FALSE)

SpecMonitor == InitMonitor /\ [][MonitorNext]_vars

\* The feed phase, cycle after cycle, while streamer files arrive.
InitFeed == Constructed(None, FALSE, FALSE, FALSE)

SpecFeed == InitFeed /\ [][FeedNext]_vars

\* The cycle of a poller constructed from any configuration.
Init ==
    \E transferDir \in {None, TransferDir}, exists, svcUrl, popConLogUrl \in BOOLEAN :
        Constructed(transferDir, exists, svcUrl, popConLogUrl)

Spec == Init /\ [][Next]_vars

\* A step of the cycle, as opposed to data taking going on.
CycleProgress ==
    \/ CycleStart
    \/ \E loads \in BOOLEAN : LoadConfiguration(loads)
    \/ FindNewRuns
    \/ \E lookup \in HLTLookups, raises \in BOOLEAN : ConfigureRun(lookup, raises)
    \/ FindNewRunStreams
    \/ \E raises \in BOOLEAN : ConfigureRunStream(raises)
    \/ StopRuns
    \/ CloseRuns
    \/ \E candidates, ready \in SUBSET ExpressRuns : ReleaseExpress(candidates, ready)
    \/ ReleasePromptReco
    \/ SyncT0DataSvc
    \/ MarkInjectedAndCloseLumis
    \/ \E outcome \in {"beginRaises", "executeRaises", "commits"} : Feed(outcome)
    \/ CloseoutAndMonitoring
    \/ \E error \in BOOLEAN : NotifyStorageManager(error)
    \/ \E error \in BOOLEAN : UploadConditions(error)
    \/ Raise
    \/ CycleEnd

\* The step is not one in which the configuration fails to load, the query
\* for new runs raises, a trigger lookup fails or configureRun raises.
ConfigurationSucceeds ==
    /\ cyclePc = "loadConfigurationFile" => tier0Config' # None
    /\ cyclePc = "findNewRuns" => cycleOutcome' # "raised"
    /\ lookupFailed' \subseteq lookupFailed
    /\ configureRunRaised' \subseteq configureRunRaised

\* The scheduler keeps calling the cycle and a cycle goes on to its end; from
\* some time on the configuration loads, the trigger lookups are valid and
\* configureRun succeeds.
CycleFairness ==
    /\ WF_vars(CycleProgress)
    /\ <>[][ConfigurationSucceeds]_vars

InitCycleFair == Constructed(TransferDir, TRUE, FALSE, FALSE)

SpecCycleFair == InitCycleFair /\ [][Next]_vars /\ CycleFairness


(***************************************************************************)
(*                          Properties: the query                          *)
(***************************************************************************)

\* The streams that own a subscription's fileset: the fileset is the output
\* of a workflow whose own subscription reads a run/stream fileset.
SubscriptionStreams(subscription) ==
    { rs.stream_id : rs \in
        { x \in run_stream_fileset_assoc :
            \E s \in wmbs_subscription, wo \in wmbs_workflow_output :
                /\ s.id = subscription
                /\ wo.output_fileset = s.fileset
                /\ x.fileset \in SubscriptionFilesets(wo.workflow_id) } }

FileLumis(fileid) ==
    { m.lumi : m \in { x \in wmbs_file_runlumi_map : x.fileid = fileid } }

\* Some (run, lumi) association of the file is locked for a stream that owns
\* the subscription.
FileTouchesLock(fileid, subscription) ==
    \E m \in wmbs_file_runlumi_map, S \in SubscriptionStreams(subscription) :
        /\ m.fileid = fileid
        /\ [run_id |-> m.run, lumi_id |-> m.lumi, stream_id |-> S]
              \in lumi_section_split_active

\* C1 (as claimed): a file available to the subscription with at least one
\* lumi association under an active split lock of the subscription's stream
\* does not appear in the rows the query returned, even when other lumis of
\* the file are not locked.
C1_AvailabilityExclusion ==
    queryPc = "returned" =>
        \A a \in wmbs_sub_files_available :
            (a.subscription = querySub /\ FileTouchesLock(a.fileid, querySub))
                => \A row \in queryResult : row.id # a.fileid

\* C2 (as claimed): every returned row reports first_lumi = the minimum and
\* last_lumi = the maximum lumi over all lumi associations of its file.
C2_LumiRangeCorrect ==
    queryPc = "returned" =>
        \A row \in queryResult :
            /\ row.first_lumi = Min(FileLumis(row.id))
            /\ row.last_lumi = Max(FileLumis(row.id))

(***************************************************************************)
(*                        Properties: the sync pass                        *)
(***************************************************************************)

\* The downstream store holds a record with the natural key of primary key k.
Mirrored(c, k) ==
    \E r \in datasvc[c] : InsertKey(c, r) = MirrorKey(c, k)

\* C3: in every reachable state, crashes and raising inserts included, every
\* primary-store row marked synced (in any of the five categories) was given
\* to a downstream insert call that returned without error, and its record
\* is in the downstream store.
C3_InsertThenMark ==
    \A c \in CategorySet : \A k \in Keys(c) :
        in_datasvc[c][k] > 0 =>
            /\ MirrorKey(c, k) \in insertedOK[c]
            /\ Mirrored(c, k)

\* C3 witness: after a crash one row is marked synced, and another row was
\* inserted downstream but is still unmarked.
C3_Witness ==
    /\ syncPc = << "idle", "" >>
    /\ \E c \in CategorySet : \E k \in t0ast[c] : in_datasvc[c][k] > 0
    /\ \E c \in CategorySet : \E k \in t0ast[c] :
            in_datasvc[c][k] = 0 /\ Mirrored(c, k)

\* C4: a pass that starts after a pass that ran to its end, with no change
\* to the primary store since that earlier pass began, makes no downstream
\* insert call and no primary update call in any category.
C4_IdempotentSync ==
    repeatPass => (passInserts = 0 /\ passUpdates = 0)

\* C4 witness: such a second pass has run to its end, and the first pass had
\* pushed rows of two categories, one of them a run synced as not locked.
C4_Witness ==
    /\ repeatPass
    /\ lastPassComplete
    /\ syncPc = << "idle", "" >>
    /\ \E k \in t0ast["RecoReleaseConfigs"] : in_datasvc["RecoReleaseConfigs"][k] = 1
    /\ \E c \in CategorySet \ {"RecoReleaseConfigs"} :
            \E k \in t0ast[c] : in_datasvc[c][k] = 1

(***************************************************************************)
(*                    Properties: notifyStorageManager                     *)
(***************************************************************************)

RECURSIVE Flatten(_)
Flatten(lists) ==
    IF lists = << >> THEN << >> ELSE Head(lists) \o Flatten(Tail(lists))

\* The smallest number of chunks of chunkSize that hold n items.
CeilDiv(n, m) == IF n % m = 0 THEN n \div m ELSE (n \div m) + 1

\* C5: when the phase has run to its end on n fetched streamers, the notifier
\* was invoked exactly ceil(n/50) times, the invocations together got the
\* file names of the n streamers once each and in the fetched order, every
\* invocation got 50 names but the last, which got between 1 and 50, and the
\* streamers marked by the phase are exactly the n fetched ones, whatever
\* errors the invocations reported.
C5_Chunking ==
    notifyComplete =>
        LET n == Len(allFinishedStreamers)
            k == Len(invocations)
        IN  /\ k = CeilDiv(n, chunkSize)
            /\ Flatten([ i \in 1 .. k |-> invocations[i].params ])
                 = FilenameParams(allFinishedStreamers)
            /\ \A i \in 1 .. k :
                  /\ Len(invocations[i].params) >= 1
                  /\ Len(invocations[i].params) <= chunkSize
                  /\ i < k => Len(invocations[i].params) = chunkSize
            /\ markedInPhase = SeqToSet(ChunkIds(allFinishedStreamers))
            /\ Cardinality(markedInPhase) = n
            /\ deleted = deletedAtFetch \cup markedInPhase

\* C5 witness: a phase over 101 streamers ended after three invocations of
\* 50, 50 and 1 names, the second of which reported an error.
C5_Witness ==
    /\ notifyComplete
    /\ Len(allFinishedStreamers) = 2 * chunkSize + 1
    /\ Len(invocations) = 3
    /\ Len(invocations[3].params) = 1
    /\ invocations[2].error
    /\ ~invocations[1].error

(***************************************************************************)
(*             Properties: monitoring publish and closeout                 *)
(***************************************************************************)

\* C9: a workflow is marked tracked for monitoring only when the monitoring
\* store answered its insert with OK or EXISTS; after any other answer it
\* stays unmarked, so that the not-yet-published query returns it again.
C9_TrackedOnlyWhenPublished ==
    \A w \in Workflows :
        wfTracked[w] => insertResponse[w] \in {"OK", "EXISTS"}

\* The name follows the PromptReco convention: it contains the word.
MatchesPromptReco(name) ==
    \E i \in 1 .. Len(name) :
        /\ i + Len(PromptRecoPattern) - 1 <= Len(name)
        /\ SubSeq(name, i, i + Len(PromptRecoPattern) - 1) = PromptRecoPattern

CloseoutIds == { closeoutRows[i][1] : i \in 1 .. Len(closeoutRows) }

\* C10: in a closeout pass a not-yet-closed PromptReco workflow is marked
\* closed by the end of the pass whatever its fileset reports; any other
\* workflow is marked in the pass only if its fileset was reported closed;
\* and no workflow other than a PromptReco one is ever marked closed while
\* its fileset is open.
C10_CloseoutRule ==
    /\ closeoutMarked \subseteq CloseoutIds
    /\ \A i \in 1 .. Len(closeoutRows) :
          LET id == closeoutRows[i][1]
              column == closeoutRows[i][3]
              name == closeoutRows[i][4]
          IN  /\ (closeoutComplete /\ MatchesPromptReco(name))
                    => (id \in closeoutMarked /\ wfCloseout[id])
              /\ (id \in closeoutMarked /\ ~MatchesPromptReco(name))
                    => column = "0"
    /\ \A w \in Workflows :
          (wfCloseout[w] /\ ~MatchesPromptReco(WorkflowRow(w).name))
              => ~filesetOpen[w]

\* A finished pass that saw a PromptReco workflow with an open fileset and
\* closed it, left a workflow with an open fileset alone, and closed one
\* whose fileset was reported closed.
C10_Witness ==
    /\ closeoutComplete
    /\ \E i, j, k \in 1 .. Len(closeoutRows) :
          /\ MatchesPromptReco(closeoutRows[i][4])
          /\ closeoutRows[i][3] = "1"
          /\ closeoutRows[i][1] \in closeoutMarked
          /\ ~MatchesPromptReco(closeoutRows[j][4])
          /\ closeoutRows[j][3] = "1"
          /\ closeoutRows[j][1] \notin closeoutMarked
          /\ ~MatchesPromptReco(closeoutRows[k][4])
          /\ closeoutRows[k][3] = "0"
          /\ closeoutRows[k][1] \in closeoutMarked

(***************************************************************************)
(*                    Properties: the transactional feed                   *)
(***************************************************************************)

IsPhaseCall(call) == call \notin { "getExpressReadyRuns", "releaseExpress" }

PhaseCalls == SelectSeq(ran, IsPhaseCall)

ConfigurationCalls == << "findNewRuns", "findNewRunStreams" >>

\* The phases after the configuration, as the construction enables them.
LaterPhases ==
    << "stopRuns", "closeRuns", "findNewExpressRuns", "releasePromptReco" >>
      \o ( IF haveT0DataSvc THEN SyncCalls ELSE << >> )
      \o << "markWorkflowsInjected", "closeLumiSections",
            "begin", "feedStreamers", "commit",
            "closeRunStreamFilesets", "checkActiveSplitLumis",
            "feedCouchMonitoring", "closeOutRealTimeWorkflows" >>
      \o ( IF transferSystemBaseDir # None THEN << "notifyStorageManager" >>
                                           ELSE << >> )
      \o << "uploadConditions" >>

IsPrefix(short, long) ==
    /\ Len(short) <= Len(long)
    /\ SubSeq(long, 1, Len(short)) = short

\* The cycle in progress could not load the configuration.
LoadFailed ==
    /\ cycleOutcome # ""
    /\ cyclePc # "loadConfigurationFile"
    /\ tier0Config = None

CalledRuns == { call[1] : call \in configureRunCalls }

\* C7: in a cycle that could not load the configuration neither
\* configuration loop is entered and neither configureRun nor
\* configureRunStream is called, while the later phases are called one after
\* the other; a cycle that returns has called all of them, the same ones as
\* a cycle that loaded the configuration.
C7_LoadFailureSkipsOnlyConfiguration ==
    /\ LoadFailed =>
          /\ cyclePc \notin { "findNewRuns", "runLoop", "findNewRunStreams",
                              "runStreamLoop" }
          /\ configureRunCalls = {}
          /\ lookupFailed = {}
          /\ configureRunStreamCalls = {}
          /\ IsPrefix(PhaseCalls, LaterPhases)
          /\ cycleOutcome = "done" => PhaseCalls = LaterPhases
    /\ (cycleOutcome = "done" /\ ~LoadFailed)
          => PhaseCalls = ConfigurationCalls \o LaterPhases

\* A cycle that could not load the configuration, with runs and run/streams
\* waiting, has returned after the sync sub-phases and the notification.
C7_Witness ==
    /\ LoadFailed
    /\ cycleOutcome = "done"
    /\ DOMAIN unconfiguredRuns # {}
    /\ newRunStreams # {}
    /\ haveT0DataSvc
    /\ transferSystemBaseDir # None
    /\ PhaseCalls = LaterPhases

SeqRange(seq) == { seq[i] : i \in 1 .. Len(seq) }

\* C8: whatever happens to one run (trigger lookup raises or is unusable,
\* configureRun raises) or to one run/stream pair (configureRunStream
\* raises), every run the cycle found is skipped for its lookup or given to
\* configureRun, and every pair it found is given to configureRunStream,
\* by the time the loops are left; inside a loop every item found is either
\* handled or still to be visited.
C8_FailureIsolation ==
    /\ CalledRuns \subseteq runsFound
    /\ lookupFailed \subseteq runsFound
    /\ CalledRuns \cap lookupFailed = {}
    /\ configureRunStreamCalls \subseteq pairsFound
    /\ cyclePc = "runLoop"
          => runsFound = CalledRuns \cup lookupFailed
                           \cup { item[1] : item \in SeqRange(runQueue) }
    /\ cyclePc \in { "findNewRunStreams", "runStreamLoop", "stopRuns" }
          => runsFound = CalledRuns \cup lookupFailed
    /\ cyclePc = "runStreamLoop"
          => pairsFound = configureRunStreamCalls \cup SeqRange(pairQueue)
    /\ cyclePc = "stopRuns" => pairsFound = configureRunStreamCalls

\* Both loops are left: the first run was skipped for its trigger lookup,
\* the second was given to configureRun, which raised; the first pair's
\* configureRunStream raised and the second pair was configured.
C8_Witness ==
    /\ cyclePc = "stopRuns"
    /\ runsFound = { 1, 2 }
    /\ lookupFailed = { 1 }
    /\ configureRunRaised = { 2 }
    /\ Cardinality(pairsFound) = 2
    /\ pairsFound = configureRunStreamCalls
    /\ \E first, second \in pairsFound :
          /\ SortedPairs(pairsFound) = << first, second >>
          /\ first \in configureRunStreamRaised
          /\ second \notin configureRunStreamRaised

(***************************************************************************)
(*                      Properties: the Express release                    *)
(***************************************************************************)

\* C11: the runs given to ReleaseExpress in a cycle are, with a readiness
\* source, exactly the candidate runs that the source reports ready, and
\* without one exactly the candidate runs; no run outside the candidates is
\* released, and ReleaseExpress is called only for a non-empty set.
C11_ExpressReleaseSet ==
    /\ expressReleased \subseteq expressCandidates
    /\ getExpressReadyRunsDAO # None
          => expressReleased = expressCandidates \cap expressReady
    /\ getExpressReadyRunsDAO = None
          => expressReleased = expressCandidates
    /\ cyclePc = "releasePromptReco"
          => (expressReleased # {} <=> "releaseExpress" \in SeqRange(ran))

\* With a readiness source: a candidate that is not ready, a ready run that
\* is no candidate, and a ready candidate, which alone was released.
C11_Witness ==
    /\ cyclePc = "releasePromptReco"
    /\ getExpressReadyRunsDAO # None
    /\ expressCandidates \ expressReady # {}
    /\ expressReady \ expressCandidates # {}
    /\ expressReleased # {}
    /\ expressReleased = expressCandidates \cap expressReady

(***************************************************************************)
(*                Properties: the sync pass after a crash                  *)
(***************************************************************************)

\* The downstream store holds one record per natural key.
OneRecordPerKey ==
    \A c \in CategorySet :
        \A r1, r2 \in datasvc[c] :
            InsertKey(c, r1) = InsertKey(c, r2) => r1 = r2

\* The row was inserted downstream and is not marked synced.
InsertedNotMarked(c, k) ==
    /\ k \in t0ast[c]
    /\ MirrorKey(c, k) \in insertedOK[c]
    /\ in_datasvc[c][k] = 0

\* A pass stopped between the insert and the update of the row's category.
CrashedBeforeMark(c, k) ==
    /\ syncPc = << "idle", "" >>
    /\ InsertedNotMarked(c, k)

\* The method of the category has bound the row for another insert.
Reattempted(c, k) ==
    /\ syncPc = << "insert", c >>
    /\ MirrorKey(c, k) \in BindKeys(c, bindsInsert)
    /\ InsertedNotMarked(c, k)

\* Some row is left inserted and unmarked by a pass that stopped.
SomeCrashedBeforeMark ==
    \E c \in CategorySet : \E k \in Keys(c) : CrashedBeforeMark(c, k)

\* Every row of the primary store is marked synced.
AllMarked ==
    \A c \in CategorySet : \A k \in t0ast[c] : in_datasvc[c][k] >= 1

\* A method that binds its rows binds every row left inserted and unmarked.
RebindsUnmarked ==
    \A c \in CategorySet :
        (syncPc # << "insert", c >> /\ syncPc' = << "insert", c >>)
            => \A k \in Keys(c) : InsertedNotMarked(c, k) => Reattempted(c, k)'

\* Rows stay in the primary store and a mark is never taken back.
MarksKept ==
    \A c \in CategorySet :
        /\ t0ast[c] \subseteq t0ast'[c]
        /\ \A k \in Keys(c) : in_datasvc[c][k] >= 1 => in_datasvc'[c][k] >= 1

\* C12: a row that was inserted downstream by a pass that stopped before
\* marking it is bound for the insert again by the next pass that reaches its
\* category, and once passes stop crashing every such row is marked synced
\* (rows are never removed and marks never taken back, so the marked state
\* that follows covers the row); all along the downstream store holds one
\* record per natural key.
C12_CrashRecovery ==
    /\ []OneRecordPerKey
    /\ [][RebindsUnmarked /\ MarksKept]_vars
    /\ SomeCrashedBeforeMark ~> AllMarked

\* A pass crashed after the downstream insert of a RecoConfigs row and the
\* next pass has bound the row again.
C12_Witness ==
    LET c == "RecoConfigs"
    IN  \E k \in Keys(c) :
          /\ Reattempted(c, k)
          /\ passInserts = 0
          /\ Cardinality(datasvc[c]) = 1

\* How many times the cycle has made the call.
Calls(call) == Cardinality({ i \in 1 .. Len(ran) : ran[i] = call })

\* The cycle is over, by return or by an exception.
CycleOver == cyclePc = "returned"

\* The original statement of C13: every cycle, however it ended, has invoked
\* the conditions upload exactly once.
C13_UploadInEveryCycle ==
    CycleOver => Calls("uploadConditions") = 1

\* C13: the conditions upload is invoked exactly once in every cycle that no
\* earlier phase left by an exception, whatever the construction and whether
\* or not the configuration loaded; it is never invoked twice, it is invoked
\* only after the feed has committed, and a cycle ended by an exception of an
\* earlier phase has not invoked it.
C13_UploadOncePerCompletedCycle ==
    /\ Calls("uploadConditions") <= 1
    /\ Calls("uploadConditions") = 1 => Calls("commit") = 1
    /\ (CycleOver /\ cycleOutcome = "done") => Calls("uploadConditions") = 1
    /\ (CycleOver /\ cycleOutcome = "raised") => Calls("uploadConditions") = 0

\* A cycle without configuration, downstream store and transfer directory
\* has returned after the conditions upload.
C13_Witness ==
    /\ CycleOver
    /\ cycleOutcome = "done"
    /\ LoadFailed
    /\ ~haveT0DataSvc
    /\ transferSystemBaseDir = None
    /\ Calls("uploadConditions") = 1

(***************************************************************************)
(*                    Properties: the sync pass, gating                    *)
(***************************************************************************)

\* The sub-phases in the order of the statement.
SubPhaseOrder ==
    << "RunStreamDone", "ExpressConfigs", "RecoConfigs", "RecoReleaseConfigs",
       "DatasetLocked" >>

\* Nothing was inserted downstream and no synced flag was written.
NothingSynced ==
    /\ \A c \in CategorySet : datasvc[c] = {}
    /\ \A c \in CategorySet : \A k \in Keys(c) : in_datasvc[c][k] = 0
    /\ passInserts = 0
    /\ passUpdates = 0

\* A sub-phase starts: the first one between passes and only with a
\* downstream store, each other one when the one before it in the order
\* has returned (its query gave no rows, or its update is done).
StartsInOrder ==
    \A i \in 1 .. Len(SubPhaseOrder) :
        (syncPc' = << "get", SubPhaseOrder[i] >> /\ syncPc' # syncPc)
            => IF i = 1
               THEN syncPc = << "idle", "" >> /\ haveT0DataSvc
               ELSE \/ /\ syncPc = << "get", SubPhaseOrder[i - 1] >>
                       /\ GetRows(SubPhaseOrder[i - 1]) = << >>
                    \/ /\ syncPc = << "update", SubPhaseOrder[i - 1] >>
                       /\ passUpdates' = passUpdates + 1

\* Inside a sub-phase the insert follows the query and the update the insert.
StepsInOrder ==
    \A c \in CategorySet :
        /\ (syncPc' = << "insert", c >> /\ syncPc' # syncPc)
              => syncPc = << "get", c >>
        /\ (syncPc' = << "update", c >> /\ syncPc' # syncPc)
              => syncPc = << "insert", c >>

\* C14: a pass of the sync sub-phases can start if and only if a downstream
\* store is configured; the sub-phases start in the order run/stream-done,
\* express-config, reco-config, reco-release, dataset-lock, each when the
\* one before has returned; without a downstream store nothing is ever
\* inserted downstream and no synced flag is ever written.
C14_SyncGatingAndOrder ==
    /\ [](syncPc = << "idle", "" >> => (ENABLED SyncBegin <=> haveT0DataSvc))
    /\ [](~haveT0DataSvc => (syncPc = << "idle", "" >> /\ NothingSynced))
    /\ [][StartsInOrder /\ StepsInOrder]_vars

\* With a downstream store, the pass has reached the insert of the last
\* sub-phase after the first one marked its row and the ones between found
\* no rows.
C14_Witness ==
    /\ haveT0DataSvc
    /\ syncPc = << "insert", "DatasetLocked" >>
    /\ passUpdates = 1
    /\ in_datasvc["RunStreamDone"][KeyOrder("RunStreamDone")[1]] = 1

\* The phases after the feed.
PhasesAfterFeed ==
    { "closeRunStreamFilesets", "checkActiveSplitLumis", "feedCouchMonitoring",
      "closeOutRealTimeWorkflows", "notifyStorageManager", "uploadConditions" }

\* The last call the cycle made.
LastCall == IF ran = << >> THEN None ELSE ran[Len(ran)]

\* The feed did not get to its commit: beginning the transaction or the
\* feed operation raised.
FeedRaised == LastCall \in { "begin", "feedStreamers" }

\* C15: when beginning the transaction or the feed operation raises, the
\* transaction is not committed, the exception leaves the cycle and none of
\* the phases after the feed is called in that cycle; a commit comes only
\* straight after a feed operation that returned, and the phases after the
\* feed only after a commit.
C15_FatalFeed ==
    /\ FeedRaised =>
          /\ cyclePc = "returned"
          /\ cycleOutcome = "raised"
          /\ Calls("commit") = 0
          /\ \A call \in PhasesAfterFeed : Calls(call) = 0
    /\ \A i \in 1 .. Len(ran) :
          /\ ran[i] = "commit" => (i > 2 /\ ran[i - 1] = "feedStreamers"
                                         /\ ran[i - 2] = "begin")
          /\ ran[i] \in PhasesAfterFeed => \E j \in 1 .. i - 1 : ran[j] = "commit"
    /\ cyclePc \in PhasesAfterFeed => Calls("commit") = 1

\* The feed operation raised in a cycle that had run the sync sub-phases,
\* with a transfer directory configured: the cycle is over.
C15_Witness ==
    /\ LastCall = "feedStreamers"
    /\ cycleOutcome = "raised"
    /\ haveT0DataSvc
    /\ transferSystemBaseDir # None
    /\ Calls("lockDatasetsT0DataSvc") = 1

\* The phases other than the feed and the configuration loops, by their
\* calls.
OtherPhases ==
    { "findNewRuns", "findNewRunStreams", "stopRuns", "closeRuns",
      "findNewExpressRuns", "releasePromptReco",
      "updateRunStreamDoneT0DataSvc", "updateExpressConfigsT0DataSvc",
      "updateRecoConfigsT0DataSvc", "updateRecoReleaseConfigsT0DataSvc",
      "lockDatasetsT0DataSvc", "markWorkflowsInjected", "closeLumiSections",
      "closeRunStreamFilesets", "checkActiveSplitLumis", "feedCouchMonitoring",
      "closeOutRealTimeWorkflows", "notifyStorageManager" }

\* The original statement of C16: only the feed ends a cycle by an
\* exception; a failure of any other phase is isolated.
C16_OnlyFeedIsFatal ==
    cycleOutcome = "raised" => FeedRaised

\* C16: an exception raised by the feed or by any other phase outside the
\* configuration loops leaves the cycle at once: the call that raised is the
\* last call of the cycle; a cycle that returns has called every phase its
\* construction enables, so no failure of a phase was passed over.  Only the
\* configuration load and the configuration of single runs and run/stream
\* pairs are isolated.
C16_FailFastOutsideConfiguration ==
    /\ cycleOutcome = "raised" =>
          /\ CycleOver
          /\ FeedRaised \/ LastCall \in OtherPhases
          /\ IsPrefix(PhaseCalls, ConfigurationCalls \o LaterPhases)
                \/ IsPrefix(PhaseCalls, LaterPhases)
    /\ cycleOutcome = "done" =>
          /\ CycleOver
          /\ PhaseCalls \in { LaterPhases, ConfigurationCalls \o LaterPhases }
    /\ ( /\ \/ LoadFailed
             \/ lookupFailed # {}
             \/ configureRunRaised # {}
             \/ configureRunStreamRaised # {}
          /\ cyclePc \in { "runLoop", "findNewRunStreams", "runStreamLoop",
                            "stopRuns" } )
          => cycleOutcome = "running"

\* A sync sub-phase raised: the cycle is over and the feed was not reached.
C16_Witness ==
    /\ CycleOver
    /\ cycleOutcome = "raised"
    /\ LastCall = "updateRecoConfigsT0DataSvc"
    /\ Calls("begin") = 0

PhaseOrder ==
    << { "findNewRuns", "runLoop" },
       { "findNewRunStreams", "runStreamLoop" },
       { "stopRuns", "closeRuns" },
       { "findNewExpressRuns", "getExpressReadyRuns", "releaseExpress" },
       { "releasePromptReco" },
       { "updateRunStreamDoneT0DataSvc", "updateExpressConfigsT0DataSvc",
         "updateRecoConfigsT0DataSvc", "updateRecoReleaseConfigsT0DataSvc",
         "lockDatasetsT0DataSvc" },
       { "markWorkflowsInjected" },
       { "closeLumiSections" },
       { "begin", "feedStreamers", "commit" },
       { "closeRunStreamFilesets" },
       { "checkActiveSplitLumis" },
       { "feedCouchMonitoring" },
       { "closeOutRealTimeWorkflows" },
       { "notifyStorageManager" },
       { "uploadConditions" } >>

\* The place of a call's phase in the order; 0 before the first phase.
PhaseOf(call) ==
    IF \E n \in 1 .. Len(PhaseOrder) : call \in PhaseOrder[n]
    THEN CHOOSE n \in 1 .. Len(PhaseOrder) : call \in PhaseOrder[n]
    ELSE 0

\* C18: the calls of a cycle are made phase by phase in the fixed order: a
\* call of an earlier phase never follows a call of a later one, no call is
\* made twice in a cycle, and the one position of the cycle is in a phase
\* not before the phase of any call already made (the phase in progress
\* started after every earlier one returned).
C18_PhaseOrdering ==
    /\ \A i \in 1 .. Len(ran) : PhaseOf(ran[i]) >= 1
    /\ \A i, j \in 1 .. Len(ran) : i < j => PhaseOf(ran[i]) <= PhaseOf(ran[j])
    /\ \A i, j \in 1 .. Len(ran) : i < j => ran[i] # ran[j]
    /\ (cyclePc \notin { "idle", "returned", "loadConfigurationFile" })
          => /\ PhaseOf(cyclePc) >= 1
             /\ \A i \in 1 .. Len(ran) : PhaseOf(ran[i]) <= PhaseOf(cyclePc)
             /\ \A i \in 1 .. Len(ran) :
                   PhaseOf(ran[i]) = PhaseOf(cyclePc) => ran[i] # cyclePc

\* A cycle with configuration, downstream store, readiness source and
\* transfer directory has returned after a call of every phase.
C18_Witness ==
    /\ CycleOver
    /\ cycleOutcome = "done"
    /\ \A n \in 1 .. Len(PhaseOrder) : \E i \in 1 .. Len(ran) : ran[i] \in PhaseOrder[n]
    /\ Calls("getExpressReadyRuns") = 1

(***************************************************************************)
(*                 Properties: the sync pass, reco release                 *)
(***************************************************************************)

\* The reco-release method has built its binds in this step.
RecoReleaseBound ==
    /\ syncPc # << "insert", "RecoReleaseConfigs" >>
    /\ syncPc' = << "insert", "RecoReleaseConfigs" >>

\* Each run is pushed as locked exactly when its released counter is
\* positive, and the synced value to write is the locked value plus one.
PushedAsReleased ==
    RecoReleaseBound =>
        /\ Len(bindsInsert') = Len(bindsUpdate')
        /\ \A i \in 1 .. Len(bindsInsert') :
              /\ bindsInsert'[i].LOCKED =
                    ( IF released[bindsInsert'[i].RUN] > 0 THEN 1 ELSE 0 )
              /\ bindsUpdate'[i].RUN = bindsInsert'[i].RUN
              /\ bindsUpdate'[i].IN_DATASVC = bindsInsert'[i].LOCKED + 1
              /\ in_datasvc["RecoReleaseConfigs"][[run |-> bindsInsert'[i].RUN]]
                    < bindsUpdate'[i].IN_DATASVC

\* The synced value of a run never decreases, and the update writes the
\* values of the binds.
SyncedValueGrows ==
    \A k \in Keys("RecoReleaseConfigs") :
        LET c == "RecoReleaseConfigs"
        IN  /\ in_datasvc'[c][k] >= in_datasvc[c][k]
            /\ in_datasvc'[c][k] # in_datasvc[c][k]
                  => \E i \in 1 .. Len(bindsUpdate) :
                        /\ bindsUpdate[i].RUN = k.run
                        /\ bindsUpdate[i].IN_DATASVC = in_datasvc'[c][k]

\* A run synced as locked is not bound again, and the downstream store holds
\* one record per run.
LockedOnce ==
    LET c == "RecoReleaseConfigs"
    IN  /\ syncPc \in { << "insert", c >>, << "update", c >> }
              => \A i \in 1 .. Len(bindsInsert) :
                    in_datasvc[c][[run |-> bindsInsert[i].RUN]] < 2
        /\ \A run \in ReleaseRuns :
              Cardinality({ r \in datasvc[c] : r.RUN = run }) <= 1
        /\ \A k \in Keys(c) : in_datasvc[c][k] \in 0 .. 2
        /\ \A k \in Keys(c) : in_datasvc[c][k] = 2 => released[k.run] > 0

\* C19: each run the reco-release sub-phase pushes is pushed with locked 1
\* when its released counter is positive and 0 otherwise, and the synced
\* value written for it is locked + 1; the synced value of a run never
\* decreases; a run synced as locked is not pushed again and the downstream
\* store never holds a second record for a run.
C19_RecoReleaseSync ==
    /\ [][PushedAsReleased /\ SyncedValueGrows]_vars
    /\ []LockedOnce

\* A run was synced as not locked, then released and synced as locked.
C19_Witness ==
    LET c == "RecoReleaseConfigs"
    IN  \E k \in t0ast[c] :
          /\ in_datasvc[c][k] = 2
          /\ released[k.run] > 0
          /\ [RUN |-> k.run, LOCKED |-> 0] \in datasvc[c]
          /\ syncPc = << "idle", "" >>

(***************************************************************************)
(*               Properties: the sync pass, parallel batches               *)
(***************************************************************************)

\* The primary key of a row the source query of category c returned.
RowKey(c, row) ==
    CASE c \in { "RunStreamDone", "ExpressConfigs" } ->
            [run |-> row.run, stream |-> row.stream]
      [] c = "RecoConfigs" -> [run |-> row.run, primds |-> row.primds]
      [] c = "RecoReleaseConfigs" -> [run |-> row.run]
      [] c = "DatasetLocked" -> [id |-> row.id]

\* The method of category c runs its query in this step: with rows, both
\* bind lists get one entry per row, in the order of the rows and keyed as
\* the row; without rows the method returns and nothing is bound.
BindsFollowRows ==
    \A c \in CategorySet :
        (syncPc = << "get", c >> /\ syncPc' \notin { syncPc, << "idle", "" >> })
            => LET rows == GetRows(c)
               IN  IF Len(rows) > 0
                   THEN /\ syncPc' = << "insert", c >>
                        /\ Len(bindsInsert') = Len(rows)
                        /\ Len(bindsUpdate') = Len(rows)
                        /\ \A i \in 1 .. Len(rows) :
                              /\ UpdateKey(c, bindsUpdate'[i]) = RowKey(c, rows[i])
                              /\ InsertKey(c, bindsInsert'[i])
                                    = MirrorKey(c, RowKey(c, rows[i]))
                   ELSE /\ syncPc' = AfterCategory(c)
                        /\ UNCHANGED << bindsInsert, bindsUpdate >>

\* The insert gets the keys bound, and the update marks exactly the keys
\* bound; every other step (a crash among them) leaves the stores alone.
StoresFollowBinds ==
    \A c \in CategorySet :
        LET insertStep == syncPc = << "insert", c >> /\ syncPc' = << "update", c >>
            updateStep == syncPc = << "update", c >> /\ passUpdates' = passUpdates + 1
            marked == { k \in Keys(c) : in_datasvc'[c][k] # in_datasvc[c][k] }
            bound == { UpdateKey(c, bindsUpdate[i]) : i \in 1 .. Len(bindsUpdate) }
        IN  /\ insertStep =>
                  /\ { InsertKey(c, r) : r \in datasvc'[c] }
                        = { InsertKey(c, r) : r \in datasvc[c] }
                             \cup BindKeys(c, bindsInsert)
                  /\ passInserts' = passInserts + 1
            /\ ~insertStep => (datasvc'[c] = datasvc[c])
            /\ updateStep =>
                  /\ marked = bound
                  /\ \A k \in bound : in_datasvc'[c][k] >= 1
                  /\ { MirrorKey(c, k) : k \in marked } = BindKeys(c, bindsInsert)
                  /\ syncPc' = AfterCategory(c)
            /\ ~updateStep => marked = {}

\* While a method is between its query and its return the two bind lists
\* are not empty and are keyed alike, entry by entry.
BatchesParallel ==
    \A c \in CategorySet :
        syncPc \in { << "insert", c >>, << "update", c >> }
            => /\ Len(bindsInsert) > 0
               /\ Len(bindsUpdate) = Len(bindsInsert)
               /\ \A i \in 1 .. Len(bindsInsert) :
                     InsertKey(c, bindsInsert[i])
                        = MirrorKey(c, UpdateKey(c, bindsUpdate[i]))
               /\ \A i, j \in 1 .. Len(bindsInsert) :
                     i # j => InsertKey(c, bindsInsert[i]) # InsertKey(c, bindsInsert[j])

\* C20: in each sync sub-phase the rows marked synced are exactly the rows
\* whose keys were given to the downstream insert, which are exactly the
\* rows the unsynced query returned, entry by entry in the same order; when
\* the query returns no rows neither the insert nor the update is invoked.
C20_ParallelBatches ==
    /\ [][BindsFollowRows /\ StoresFollowBinds]_vars
    /\ []BatchesParallel

\* The reco-config method is about to mark the two rows it inserted.
C20_Witness ==
    /\ syncPc = << "update", "RecoConfigs" >>
    /\ Len(bindsUpdate) = 2
    /\ Cardinality(datasvc["RecoConfigs"]) = 2

(***************************************************************************)
(*                 Properties: the trigger configuration                   *)
(***************************************************************************)

\* configureRun is called in this step: for the run at the head of the loop,
\* with no trigger configuration when the run is local, and otherwise with
\* the configuration the lookup returned, which has a process and a mapping
\* with an entry.
ConfigureRunGated ==
    \A call \in configureRunCalls' \ configureRunCalls :
        /\ cyclePc = "runLoop"
        /\ call[1] = Head(runQueue)[1]
        /\ IF Head(runQueue)[2] = None
           THEN call[2] = None
           ELSE /\ call[2] \in HLTLookups \ { "raises" }
                /\ GetHLTConfig(call[2]).process # None
                /\ Len(GetHLTConfig(call[2]).mapping) >= 1

\* A run is skipped in this step: it has a trigger key, configureRun is not
\* called for it and it stays unconfigured.
SkippedStaysUnconfigured ==
    \A run \in lookupFailed' \ lookupFailed :
        /\ cyclePc = "runLoop"
        /\ run = Head(runQueue)[1]
        /\ Head(runQueue)[2] # None
        /\ configureRunCalls' = configureRunCalls
        /\ run \in DOMAIN unconfiguredRuns'
        /\ unconfiguredRuns'[run] = Head(runQueue)[2]

\* The query for new runs gives the loop every unconfigured run, the runs
\* skipped in earlier cycles among them.
UnconfiguredFoundAgain ==
    (cyclePc = "findNewRuns" /\ cyclePc' \in { "runLoop", "findNewRunStreams" })
        => /\ runsFound' = DOMAIN unconfiguredRuns
           /\ { item[1] : item \in SeqRange(runQueue') } = DOMAIN unconfiguredRuns

\* C21: configureRun is called for a run with a trigger key only with a
\* trigger configuration that has a process and a mapping with an entry, and
\* for a local run with none and without a lookup; a run whose lookup failed
\* is left unconfigured, is found again by every later cycle that configures
\* runs and, once the lookups are valid, is configured.
C21_TriggerGateAndRetry ==
    /\ [][ConfigureRunGated /\ SkippedStaysUnconfigured /\ UnconfiguredFoundAgain]_vars
    /\ [](lookupFailed \subseteq DOMAIN unconfiguredRuns)
    /\ \A run \in NewRunIds :
          (run \in lookupFailed)
              ~> (run \in CalledRuns /\ run \notin DOMAIN unconfiguredRuns)

\* In one cycle the first run, with a trigger key, was skipped for its
\* lookup and the second, a local run, was configured with no trigger
\* configuration.
C21_Witness ==
    /\ lookupFailed = { 1 }
    /\ 1 \in DOMAIN unconfiguredRuns
    /\ configureRunCalls = { << 2, None >> }
    /\ 2 \notin DOMAIN unconfiguredRuns

(***************************************************************************)
(*                     Properties: the rows of the query                   *)
(***************************************************************************)

\* The storage element names of the locations a file is stored at.
FileLocations(fileid) ==
    { l.se_name : l \in
        { x \in wmbs_location :
            \E fl \in wmbs_file_location :
                fl.fileid = fileid /\ fl.location = x.id } }

RowsOfFile(fileid) == { row \in queryResult : row.id = fileid }

\* Available to the subscription, with a lumi association, none of them
\* locked for a stream that owns the subscription.
Eligible(fileid, subscription) ==
    /\ [subscription |-> subscription, fileid |-> fileid]
          \in wmbs_sub_files_available
    /\ FileLumis(fileid) # {}
    /\ ~FileTouchesLock(fileid, subscription)

\* The rows returned for the files of the subscription.
RowsPerLocation ==
    queryPc = "returned" =>
        \A f \in Files :
            /\ Eligible(f, querySub) =>
                  /\ Cardinality(RowsOfFile(f)) = Cardinality(FileLocations(f))
                  /\ { row.location : row \in RowsOfFile(f) } = FileLocations(f)
                  /\ \A row \in RowsOfFile(f) :
                        /\ row.first_lumi = Min(FileLumis(f))
                        /\ row.last_lumi = Max(FileLumis(f))
            /\ (FileLumis(f) = {} \/ FileLocations(f) = {}) => RowsOfFile(f) = {}
            /\ \A r1, r2 \in RowsOfFile(f) :
                  /\ r1.first_lumi = r2.first_lumi
                  /\ r1.last_lumi = r2.last_lumi
                  /\ r1.location = r2.location => r1 = r2

\* execute() is a read: it changes its own result and nothing else.
ExecuteReadsOnly ==
    (queryPc = "idle" /\ queryPc' = "returned") =>
        /\ UNCHANGED << wmbs_sub_files_available, wmbs_file_runlumi_map,
                        wmbs_file_location, lumi_section_split_active >>
        /\ UNCHANGED queryFrame
        /\ queryResult' = GetAvailableRepackMergeFiles(querySub')

\* C22: a file eligible for the subscription and stored at k locations is
\* returned as exactly k rows, one per location, each with the minimum and
\* maximum lumi of the file; a file with no lumi association or with no
\* location is returned as no row; the rows of one file always carry the
\* same lumi range; and the query changes no table and no other state.
C22_RowsPerFileAndLocation ==
    /\ []RowsPerLocation
    /\ [][ExecuteReadsOnly]_vars

\* The query returned file 1, eligible with two lumis and stored at both
\* locations, as two rows.
C22_Witness ==
    /\ queryPc = "returned"
    /\ querySub = 2
    /\ Eligible(1, 2)
    /\ Cardinality(FileLumis(1)) = 2
    /\ Cardinality(FileLocations(1)) = 2
    /\ Cardinality(RowsOfFile(1)) = 2

(***************************************************************************)
(*             Properties: notifyStorageManager, notify then mark          *)
(***************************************************************************)

\* The file name the notifier is given for a streamer.
NameOf(id) == BaseName(Lfn(id))

\* The file names given to the i-th invocation of the phase.
NamesOfInvocation(i) ==
    { invocations[i].params[j][2] : j \in 1 .. Len(invocations[i].params) }

Unmarked == (1 .. streamerCount) \ deleted

\* Every streamer the phase marked was named in an invocation already made,
\* and every chunk but the last one invoked has been marked.
MarkedWereInvoked ==
    /\ \A id \in markedInPhase :
          \E i \in 1 .. Len(invocations) : NameOf(id) \in NamesOfInvocation(i)
    /\ \A i \in 1 .. Len(invocations) - 1 :
          NamesOfInvocation(i) \subseteq { NameOf(id) : id \in markedInPhase }
    /\ markedInPhase \subseteq deleted

\* A step marks only streamers named in an invocation made before the step.
MarkFollowsInvoke ==
    \A id \in deleted' \ deleted :
        /\ invocations' = invocations
        /\ \E i \in 1 .. Len(invocations) : NameOf(id) \in NamesOfInvocation(i)

\* The notifier is invoked for a chunk only when the streamers of all the
\* chunks invoked before it are marked, and on streamers not yet marked.
InvokeFollowsMark ==
    Len(invocations') = Len(invocations) + 1 =>
        /\ \A i \in 1 .. Len(invocations) :
              NamesOfInvocation(i) \subseteq { NameOf(id) : id \in deleted }
        /\ \A id \in deleted :
              NameOf(id) \notin
                  { invocations'[Len(invocations')].params[j][2] :
                      j \in 1 .. Len(invocations'[Len(invocations')].params) }

\* A call of the method fetches every finished streamer not marked, those a
\* cut-short call left behind included.
FetchReturnsUnmarked ==
    (notifyPc = "idle" /\ arrivals' = arrivals) =>
        SeqToSet(ChunkIds(allFinishedStreamers')) = Unmarked

\* C23: in every reachable state, after a crash inside the phase too, every
\* streamer marked notified was named in an invocation of the notifier made
\* before it was marked; the streamers of a chunk are marked before the
\* notifier is invoked for the next chunk; a later call fetches every
\* streamer still unmarked, and once calls are no longer cut short every
\* finished streamer is notified and marked.
C23_NotifyThenMark ==
    /\ []MarkedWereInvoked
    /\ [][MarkFollowsInvoke /\ InvokeFollowsMark /\ FetchReturnsUnmarked]_vars
    /\ (Unmarked # {}) ~> (Unmarked = {})

\* A call over 101 streamers was cut short after the second invocation and
\* before its mark: the first chunk is marked, the other 51 streamers are not.
C23_Witness ==
    /\ notifyPc = "idle"
    /\ ~notifyComplete
    /\ Len(allFinishedStreamers) = 2 * chunkSize + 1
    /\ Len(invocations) = 2
    /\ markedInPhase = 1 .. chunkSize
    /\ Unmarked = (chunkSize + 1) .. (2 * chunkSize + 1)

(***************************************************************************)
(*                  Properties: the transfer-path gate                     *)
(***************************************************************************)

\* A transfer-notification path is configured and existed at construction.
TransferPath == configuredDir # None /\ dirExists

\* The cycle is past the gate of the notification: closeOutRealTimeWorkflows
\* has returned and the cycle is not about to call the notification.
PastNotifyGate ==
    /\ Calls("closeOutRealTimeWorkflows") = 1
    /\ cyclePc \in { "uploadConditions", "returned" }
    /\ ~(cycleOutcome = "raised" /\ LastCall = "closeOutRealTimeWorkflows")

\* The notification is called in a cycle exactly when the path is there.
NotifyGated ==
    /\ (transferSystemBaseDir # None) <=> TransferPath
    /\ transferSystemBaseDir # None => transferSystemBaseDir = configuredDir
    /\ PastNotifyGate => (Calls("notifyStorageManager") = 1 <=> TransferPath)
    /\ Calls("notifyStorageManager") <= 1

\* Without the path no cycle gets to the notification, invokes the notifier
\* or marks a streamer, and the injection marking is given FALSE.
NoPathNoNotification ==
    ~TransferPath =>
        /\ cyclePc # "notifyStorageManager"
        /\ Calls("notifyStorageManager") = 0
        /\ ~notifierError
        /\ ~streamersMarked
        /\ injectedFlags \subseteq { FALSE }

\* The flag given to the injection marking is the condition of the gate.
FlagIsGate ==
    /\ injectedFlags \subseteq { transferSystemBaseDir # None }
    /\ (Calls("markWorkflowsInjected") = 1
          /\ ~(cycleOutcome = "raised" /\ LastCall = "markWorkflowsInjected"))
          => injectedFlags # {}
    /\ Calls("notifyStorageManager") = 1 => injectedFlags \subseteq { TRUE }

\* C24: the notification is called in a cycle if and only if a transfer
\* directory is configured and existed at construction; without it no cycle
\* invokes the notifier or marks a streamer notified and the injection
\* marking is given the flag FALSE; the flag given to the injection marking
\* always equals the condition that gates the notification.
C24_TransferPathGating ==
    NotifyGated /\ NoPathNoNotification /\ FlagIsGate

\* A cycle of a poller configured with a directory that did not exist ran
\* to its end: the injection marking got FALSE and the notification was not
\* called.
C24_Witness ==
    /\ configuredDir = TransferDir
    /\ ~dirExists
    /\ cyclePc = "returned"
    /\ cycleOutcome = "done"
    /\ injectedFlags = { FALSE }
    /\ Calls("markWorkflowsInjected") = 1
    /\ Calls("notifyStorageManager") = 0
    /\ Calls("uploadConditions") = 1

====
